---- MODULE Spec2Model ----
(***************************************************************************)
(* A model of the bytecode compiler (src/src/compile.rs) and of the stack  *)
(* virtual machine (src/src/vm.rs) of lox-in-rust.                         *)
(*                                                                         *)
(* The compiler is a set of operators over a parser record p, one operator *)
(* per method of Parser.  A method returning Result<_, ParseError> is an   *)
(* operator that leaves its error in p.err and its value in p.ret; every   *)
(* operator passes a record with a pending error through unchanged, which  *)
(* is what the `?` after each call does in the source.                     *)
(*                                                                         *)
(* The virtual machine is a state machine: one action per opcode arm of    *)
(* VM::run, plus VM::interpret.  Indices (slot, ip, stack addresses) are   *)
(* the 0-based indices of the source; sequences are 1-based, so the value  *)
(* at stack address a is stack[a + 1].                                     *)
(***************************************************************************)
EXTENDS Integers, Sequences, FiniteSets, TLC

\* ------------------------------------------------------------------------
\* Opcodes (src/src/chunk.rs)
\* ------------------------------------------------------------------------
OP_RETURN == 0
OP_CONSTANT == 1
OP_NEGATE == 2
OP_ADD == 3
OP_SUBTRACT == 4
OP_MULTIPLY == 5
OP_DIVIDE == 6
OP_NIL == 7
OP_TRUE == 8
OP_FALSE == 9
OP_NOT == 10
OP_EQUAL == 11
OP_GREATER == 12
OP_LESS == 13
OP_PRINT == 14
OP_POP == 15
OP_DEFINE_GLOBAL == 16
OP_GET_GLOBAL == 17
OP_SET_GLOBAL == 18
OP_GET_LOCAL == 19
OP_SET_LOCAL == 20
OP_JUMP_IF_FALSE == 21
OP_JUMP == 22
OP_LOOP == 23
OP_CALL == 24
OP_CLASS == 25
OP_GET_PROPERTY == 26
OP_SET_PROPERTY == 27
OP_CLOSURE == 28
OP_GET_UPVALUE == 29
OP_SET_UPVALUE == 30
OP_CLOSE_UPVALUE == 31

\* Width in bytes of a jump operand (crate::USIZE).
USIZE == 2

\* One byte holds values below ByteRange.
ByteRange == 256

\* make_constant rejects a pool position at or above this. The source has
\* 256; the model scales it down to a size that a source text of a few dozen
\* lexemes fills and that no other source text of Programs reaches.
MaxConstants == 16

\* ------------------------------------------------------------------------
\* Values (src/src/object.rs, enum LoxType)
\* ------------------------------------------------------------------------
Nil == [t |-> "None"]

Bool(b) == [t |-> "Bool", b |-> b]

Number(n) == [t |-> "Number", n |-> n]

Abs(n) == IF n < 0 THEN 0 - n ELSE n

\* The f64 quotient b / a of two integral numbers: an integral number when
\* the division is exact; otherwise, and for a zero divisor (an infinity or
\* NaN), a Number that keeps numerator and denominator.  Arithmetic on such a
\* quotient is outside the programs considered.
Quotient(b, a) ==
  IF a # 0 /\ Abs(b) % Abs(a) = 0
  THEN Number((IF (b < 0) # (a < 0) THEN 0 - 1 ELSE 1) * (Abs(b) \div Abs(a)))
  ELSE [t |-> "Number", num |-> b, den |-> a]

Str(s) == [t |-> "String", s |-> s]

FunctionVal(f) == [t |-> "Function", f |-> f]

ClosureVal(f, ups) == [t |-> "Closure", function |-> f, upvalues |-> ups]

ClassVal(name) == [t |-> "Class", name |-> name]

InstanceVal(ref) == [t |-> "Instance", ref |-> ref]

\* ------------------------------------------------------------------------
\* Tokens.  A source text is given as the sequence of its lexemes; TokenOf
\* classifies a lexeme the way Scanner::scan_token does.
\* ------------------------------------------------------------------------
keywords ==
  ("and" :> "And") @@ ("class" :> "Class") @@ ("else" :> "Else") @@
  ("false" :> "False") @@ ("for" :> "For") @@ ("fun" :> "Fun") @@
  ("if" :> "If") @@ ("nil" :> "Nil") @@ ("or" :> "Or") @@
  ("print" :> "Print") @@ ("return" :> "Return") @@ ("super" :> "Super") @@
  ("this" :> "This") @@ ("true" :> "True") @@ ("var" :> "Var") @@
  ("while" :> "While")

Punctuation ==
  ("(" :> "LeftParen") @@ (")" :> "RightParen") @@ ("{" :> "LeftBrace") @@
  ("}" :> "RightBrace") @@ (";" :> "Semicolon") @@ ("," :> "Comma") @@
  ("." :> "Dot") @@ ("-" :> "Minus") @@ ("+" :> "Plus") @@ ("/" :> "Slash") @@
  ("*" :> "Star") @@ ("!" :> "Bang") @@ ("!=" :> "BangEqual") @@
  ("=" :> "Equal") @@ ("==" :> "EqualEqual") @@ ("<" :> "Less") @@
  ("<=" :> "LessEqual") @@ (">" :> "Greater") @@ (">=" :> "GreaterEqual")

\* The number lexemes of the programs below and the value each parses to.
NumberLexemes ==
  ("0" :> 0) @@ ("1" :> 1) @@ ("2" :> 2) @@ ("3" :> 3) @@ ("4" :> 4) @@
  ("5" :> 5) @@ ("6" :> 6) @@ ("7" :> 7) @@ ("8" :> 8) @@ ("9" :> 9)

\* The string lexemes of the programs below (quotes included) and the text
\* between the quotes.
StringLexemes ==
  ("\"\"" :> "") @@ ("\"T\"" :> "T") @@ ("\"E\"" :> "E") @@ ("\"s\"" :> "s") @@
  ("\"o\"" :> "o")

\* The characters of the programs below that start no token.
InvalidChars == {"@", "#"}

\* the Err(ParseError) of scan_token for the character lex
ScanError(lex) == [ttype |-> "ScanError", lex |-> lex]

TokenOf(lex) ==
  [ttype |-> IF lex \in DOMAIN Punctuation THEN Punctuation[lex]
             ELSE IF lex \in DOMAIN NumberLexemes THEN "Number"
             ELSE IF lex \in DOMAIN StringLexemes THEN "String"
             ELSE IF lex \in DOMAIN keywords THEN keywords[lex]
             ELSE "Identifier",
   lex |-> lex]

EofToken == [ttype |-> "Eof", lex |-> ""]

\* ------------------------------------------------------------------------
\* Chunk (src/src/chunk.rs).  `defs` is not in the source: it remembers,
\* for the properties about locals, the code offset at which each local was
\* defined and the index the compiler gave it.
\* ------------------------------------------------------------------------
NewChunk == [code |-> <<>>, constants |-> <<>>, defs |-> <<>>, uses |-> <<>>]

write_chunk(chunk, byte) == [chunk EXCEPT !.code = Append(@, byte)]

modify_chunk(chunk, pos, byte) == [chunk EXCEPT !.code[pos + 1] = byte]

add_constant(chunk, val) == [chunk EXCEPT !.constants = Append(@, val)]

\* usize::to_ne_bytes, on a little-endian build, cut to USIZE bytes.
RECURSIVE to_ne_bytes(_, _)
to_ne_bytes(n, width) ==
  IF width = 0 THEN <<>>
  ELSE <<n % ByteRange>> \o to_ne_bytes(n \div ByteRange, width - 1)

\* usize::from_ne_bytes
RECURSIVE from_ne_bytes(_)
from_ne_bytes(bytes) ==
  IF bytes = <<>> THEN 0
  ELSE Head(bytes) + ByteRange * from_ne_bytes(Tail(bytes))

\* Chunk::read_jump, for a position whose USIZE bytes are all in the chunk.
read_jump(chunk, pos) == from_ne_bytes(SubSeq(chunk.code, pos + 1, pos + USIZE))

\* Chunk::disassemble_instruction: the offset of the instruction after the
\* one at offset
disassemble_instruction(chunk, offset) ==
  LET instruction == chunk.code[offset + 1]
  IN IF instruction \in {OP_CONSTANT, OP_DEFINE_GLOBAL, OP_GET_GLOBAL,
                         OP_SET_GLOBAL, OP_GET_LOCAL, OP_SET_LOCAL, OP_CALL,
                         OP_CLASS, OP_GET_PROPERTY, OP_SET_PROPERTY,
                         OP_GET_UPVALUE, OP_SET_UPVALUE}
     THEN offset + 2
     ELSE IF instruction \in {OP_JUMP_IF_FALSE, OP_JUMP, OP_LOOP}
     THEN offset + 1 + USIZE
     ELSE IF instruction = OP_CLOSURE
     THEN offset + 2 + 2 * chunk.constants[chunk.code[offset + 2] + 1].f.upvalue
     ELSE offset + 1

\* Chunk::disassemble_chunk: the offsets at which it finds an instruction,
\* from offset on
RECURSIVE disassemble_chunk(_, _)
disassemble_chunk(chunk, offset) ==
  IF offset >= Len(chunk.code) THEN {}
  ELSE {offset} \cup disassemble_chunk(chunk, disassemble_instruction(chunk, offset))

\* ------------------------------------------------------------------------
\* Compiler (src/src/compile.rs)
\* ------------------------------------------------------------------------
Local(name, depth) == [name |-> name, depth |-> depth, is_captured |-> FALSE]

ScopeInit(token) ==
  [locals |-> <<Local(token, 0)>>, depth |-> 0, upvalues |-> <<>>]

Failed(p) == p.err # ""

Fail(p, reason) == [p EXCEPT !.err = reason]

Ret(p, v) == [p EXCEPT !.ret = v]

\* ------------------------------------------------------------------------
\* Scanner over characters (compile.rs 70-246). A source text is the sequence
\* of its characters, all ASCII; fault: source was indexed at or beyond its
\* end (a panic).
\* ------------------------------------------------------------------------
init_scanner(text) ==
  [source |-> text, length |-> Len(text), pos |-> 0, line |-> 1, fault |-> FALSE]

is_at_end(sc) == sc.pos = sc.length

Fault(sc) == [sc EXCEPT !.fault = TRUE]

\* source[i]
CharAt(sc, i) == sc.source[i + 1]

InBounds(sc, i) == i < Len(sc.source)

Digits == {"0", "1", "2", "3", "4", "5", "6", "7", "8", "9"}

Letters ==
  {"a", "b", "c", "d", "e", "f", "g", "h", "i", "j", "k", "l", "m", "n", "o",
   "p", "q", "r", "s", "t", "u", "v", "w", "x", "y", "z", "A", "B", "C", "D",
   "E", "F", "G", "H", "I", "J", "K", "L", "M", "N", "O", "P", "Q", "R", "S",
   "T", "U", "V", "W", "X", "Y", "Z", "_"}

is_digit(c) == c \in Digits

is_alpha_numeric(c) == c \in Digits \cup Letters

\* while self.peek() != '\n' && !self.is_at_end() { self.pos += 1 }
RECURSIVE skip_comment(_)
skip_comment(sc) ==
  IF ~InBounds(sc, sc.pos) THEN Fault(sc)
  ELSE IF CharAt(sc, sc.pos) # "\n" /\ ~is_at_end(sc)
  THEN skip_comment([sc EXCEPT !.pos = @ + 1])
  ELSE sc

RECURSIVE skip_whitespace(_)
skip_whitespace(sc) ==
  IF sc.fault \/ is_at_end(sc) THEN sc
  ELSE LET c == CharAt(sc, sc.pos)
       IN IF c \in {" ", "\t", "\r"}
          THEN skip_whitespace([sc EXCEPT !.pos = @ + 1])
          ELSE IF c = "\n"
          THEN skip_whitespace([sc EXCEPT !.line = @ + 1, !.pos = @ + 1])
          ELSE IF c = "/"
          THEN IF ~InBounds(sc, sc.pos + 1) THEN Fault(sc)
               ELSE IF CharAt(sc, sc.pos + 1) = "/"
               THEN skip_whitespace(skip_comment(sc))
               ELSE sc
          ELSE sc

\* Scanner::is_match(expect)
match_char(sc, expect) ==
  IF is_at_end(sc) THEN sc
  ELSE IF CharAt(sc, sc.pos) # expect THEN sc
  ELSE [sc EXCEPT !.pos = @ + 1]

\* the loop of the string arm:
\* while self.peek() != '"' && !self.is_at_end() { ... self.pos += 1 }
RECURSIVE string_loop(_)
string_loop(sc) ==
  IF ~InBounds(sc, sc.pos) THEN Fault(sc)
  ELSE IF CharAt(sc, sc.pos) # "\"" /\ ~is_at_end(sc)
  THEN string_loop([sc EXCEPT !.pos = @ + 1,
                              !.line = IF CharAt(sc, sc.pos) = "\n"
                                       THEN @ + 1 ELSE @])
  ELSE sc

\* while !self.is_at_end() && is_digit(self.peek()) { self.advance(); }
RECURSIVE digit_loop(_)
digit_loop(sc) ==
  IF ~is_at_end(sc) /\ is_digit(CharAt(sc, sc.pos))
  THEN digit_loop([sc EXCEPT !.pos = @ + 1])
  ELSE sc

RECURSIVE alpha_loop(_)
alpha_loop(sc) ==
  IF ~is_at_end(sc) /\ is_alpha_numeric(CharAt(sc, sc.pos))
  THEN alpha_loop([sc EXCEPT !.pos = @ + 1])
  ELSE sc

\* the number arm after its first digit
number_arm(sc) ==
  LET d == digit_loop(sc)
  IN IF ~is_at_end(d) /\ CharAt(d, d.pos) = "."
     THEN IF ~InBounds(d, d.pos + 1) THEN Fault(d)
          ELSE IF is_digit(CharAt(d, d.pos + 1))
          THEN digit_loop([d EXCEPT !.pos = @ + 1])
          ELSE d
     ELSE d

\* Scanner::scan_token over the characters: the scanner it leaves and what it
\* returns, "Token", "Eof", "Error" (an Err) or "Fault"
scan_token_chars(sc) ==
  LET w == skip_whitespace(sc)
      a == [w EXCEPT !.pos = @ + 1]
      c == CharAt(w, w.pos)
      Result(s, ttype) == [sc |-> s, ttype |-> IF s.fault THEN "Fault" ELSE ttype]
  IN IF w.fault THEN Result(w, "Fault")
     ELSE IF is_at_end(w) THEN Result(w, "Eof")
     ELSE IF c \in {"(", ")", "{", "}", ";", ",", ".", "-", "+", "/", "*"}
     THEN Result(a, "Token")
     ELSE IF c \in {"!", "=", "<", ">"} THEN Result(match_char(a, "="), "Token")
     ELSE IF c = "\""
     THEN LET s == string_loop(a)
          IN IF s.fault THEN Result(s, "Fault")
             ELSE IF is_at_end(s) THEN Result(s, "Error")
             ELSE Result([s EXCEPT !.pos = @ + 1], "Token")
     ELSE IF is_digit(c) THEN Result(number_arm(a), "Token")
     ELSE IF c \in Letters THEN Result(alpha_loop(a), "Token")
     ELSE Result(a, "Error")

\* The scanner of compile(text) as the parser drives it: scan_token is called
\* until it returns Eof; TRUE when one of the calls faults
RECURSIVE ScanFaults(_)
ScanFaults(sc) ==
  LET r == scan_token_chars(sc)
  IN IF r.ttype = "Fault" THEN TRUE
     ELSE IF r.ttype = "Eof" THEN FALSE
     ELSE ScanFaults(r.sc)

\* Scanner::scan_token over the lexeme sequence: Eof once it is used up, an
\* error for a character that starts no token.
scan_token(p) ==
  IF p.pos > Len(p.toks) THEN EofToken
  ELSE IF p.toks[p.pos] \in InvalidChars THEN ScanError(p.toks[p.pos])
  ELSE TokenOf(p.toks[p.pos])

\* Parser::advance. On a scan error previous is already assigned, the scanner
\* is past the character and current is kept.
advance(p) ==
  IF Failed(p) THEN p
  ELSE IF scan_token(p).ttype = "ScanError"
  THEN Fail([p EXCEPT !.previous = p.current, !.pos = p.pos + 1],
            "Unknown Error")
  ELSE [p EXCEPT !.previous = p.current,
                 !.current = scan_token(p),
                 !.pos = IF p.pos > Len(p.toks) THEN p.pos ELSE p.pos + 1]

is_match(p, ttype) == p.current.ttype = ttype

\* match_advance is `if is_match(p, t) then advance`: the callers branch on
\* is_match and continue from match_advance(p, t).
match_advance(p, ttype) ==
  IF Failed(p) THEN p
  ELSE IF ~is_match(p, ttype) THEN p
  ELSE [advance(p) EXCEPT !.err = ""]

expect(p, ttype) ==
  IF Failed(p) THEN p
  ELSE IF p.current.ttype = ttype THEN advance(p)
  ELSE Fail(p, "Expected token")

emit_byte(p, byte) ==
  IF Failed(p) THEN p
  ELSE [p EXCEPT !.chunk = write_chunk(@, byte)]

emit_bytes(p, byte1, byte2) == emit_byte(emit_byte(p, byte1), byte2)

emit_return(p) == emit_bytes(p, OP_NIL, OP_RETURN)

make_constant(p, val) ==
  IF Failed(p) THEN p
  ELSE LET pos == Len(p.chunk.constants)
           q == [p EXCEPT !.chunk = add_constant(@, val)]
       IN IF pos >= MaxConstants THEN Fail(q, "Too many constants")
          ELSE Ret(q, pos)

emit_constant(p, val) ==
  LET q == make_constant(p, val)
  IN emit_bytes(q, OP_CONSTANT, q.ret)

number(p) ==
  IF Failed(p) THEN p
  ELSE emit_constant(p, Number(NumberLexemes[p.previous.lex]))

string(p) ==
  IF Failed(p) THEN p
  ELSE emit_constant(p, Str(StringLexemes[p.previous.lex]))

identifier_constant(p) ==
  IF Failed(p) THEN p ELSE make_constant(p, Str(p.previous.lex))

identifier_equal(token1, token2) == token1.lex = token2.lex

add_local(p, token) ==
  [p EXCEPT !.scope.locals = Append(@, Local(token, -1))]

\* every local of the function is compared, whatever its depth
declare_variable_any_depth(p) ==
  IF Failed(p) THEN p
  ELSE IF p.scope.depth = 0 THEN p
  ELSE IF \E i \in 1..Len(p.scope.locals) :
            identifier_equal(p.previous, p.scope.locals[i].name)
  THEN Fail(p, "A variable with same name defined in this scope")
  ELSE add_local(p, p.previous)

declare_variable(p) ==
  IF Failed(p) THEN p
  ELSE IF p.scope.depth = 0 THEN p
  ELSE LET locals == p.scope.locals
           \* the locals the loop looks at before it breaks: those above the
           \* topmost local of an enclosing scope
           Outer == {i \in 1..Len(locals) :
                       p.scope.depth # -1 /\ locals[i].depth < p.scope.depth}
           Seen == {i \in 1..Len(locals) : \A j \in Outer : i > j}
       IN IF \E i \in Seen : identifier_equal(p.previous, locals[i].name)
          THEN Fail(p, "A variable with same name defined in this scope")
          ELSE add_local(p, p.previous)

parse_variable(p) ==
  LET q == declare_variable(expect(p, "Identifier"))
  IN IF Failed(q) THEN q
     ELSE IF q.scope.depth > 0 THEN Ret(q, 0)
     ELSE identifier_constant(q)

make_initialized(p) ==
  IF Failed(p) THEN p
  ELSE IF p.scope.depth = 0 THEN p
  ELSE LET len == Len(p.scope.locals)
       IN [p EXCEPT !.scope.locals[len].depth = p.scope.depth]

define_variable(p, id) ==
  IF Failed(p) THEN p
  ELSE IF p.scope.depth > 0 THEN make_initialized(p)
  ELSE emit_bytes(p, OP_DEFINE_GLOBAL, id)

\* Not in the source: after a var, fun or class declaration in a block has
\* emitted the code of its value, remember the offset reached, the index of
\* the local just defined, its depth and the depth of the scope.
mark_defined(p) ==
  IF Failed(p) \/ p.scope.depth = 0 THEN p
  ELSE [p EXCEPT !.chunk.defs =
          Append(@, [off |-> Len(p.chunk.code),
                     idx |-> Len(p.scope.locals) - 1,
                     depth |-> p.scope.locals[Len(p.scope.locals)].depth,
                     scope_depth |-> p.scope.depth])]

begin_scope(p) ==
  IF Failed(p) THEN p ELSE [p EXCEPT !.scope.depth = @ + 1]

RECURSIVE end_scope_loop(_)
end_scope_loop(p) ==
  LET n == Len(p.scope.locals)
  IN IF n = 0 THEN p
     ELSE IF p.scope.locals[n].depth > p.scope.depth
     THEN LET q == emit_byte(p, IF p.scope.locals[n].is_captured
                                THEN OP_CLOSE_UPVALUE ELSE OP_POP)
          IN end_scope_loop([q EXCEPT !.scope.locals = SubSeq(@, 1, n - 1)])
     ELSE p

end_scope(p) ==
  IF Failed(p) THEN p
  ELSE end_scope_loop([p EXCEPT !.scope.depth = @ - 1])

emit_jump(p, op) ==
  IF Failed(p) THEN p
  ELSE LET q == [p EXCEPT !.chunk.code = @ \o <<op>> \o [i \in 1..USIZE |-> 255]]
       IN Ret(q, Len(q.chunk.code) - USIZE)

emit_loop(p, start) ==
  IF Failed(p) THEN p
  ELSE LET q == emit_byte(p, OP_LOOP)
           offset == Len(q.chunk.code) - start + USIZE
       IN [q EXCEPT !.chunk.code = @ \o to_ne_bytes(offset, USIZE)]

\* the distance counted from the first byte of the operand
patch_jump_from_operand(p, offset) ==
  IF Failed(p) THEN p
  ELSE LET jump == Len(p.chunk.code) - offset
           bytes == to_ne_bytes(jump, USIZE)
       IN [p EXCEPT !.chunk.code =
             [i \in 1..Len(@) |->
                IF i - 1 >= offset /\ i - 1 < offset + USIZE
                THEN bytes[i - offset] ELSE @[i]]]

patch_jump(p, offset) ==
  IF Failed(p) THEN p
  ELSE LET jump == Len(p.chunk.code) - offset - USIZE
           bytes == to_ne_bytes(jump, USIZE)
       IN [p EXCEPT !.chunk.code =
             [i \in 1..Len(@) |->
                IF i - 1 >= offset /\ i - 1 < offset + USIZE
                THEN bytes[i - offset] ELSE @[i]]]

\* Precedence levels (enum Prec)
PrecNone == 0
PrecAssignment == 1
PrecOr == 2
PrecAnd == 3
PrecEquality == 4
PrecComparison == 5
PrecTerm == 6
PrecFactor == 7
PrecUnary == 8
PrecCall == 9
PrecPrimary == 10

\* Prec::next
PrecNext(prec) == IF prec + 1 > PrecPrimary THEN PrecPrimary ELSE prec + 1

\* get_precedence that gives * and / the precedence of + and -
get_precedence_flat(ttype) ==
  IF ttype \in {"Minus", "Plus", "Slash", "Star"} THEN PrecTerm
  ELSE IF ttype \in {"BangEqual", "EqualEqual"} THEN PrecEquality
  ELSE IF ttype \in {"Greater", "GreaterEqual", "Less", "LessEqual"}
       THEN PrecComparison
  ELSE IF ttype \in {"LeftParen", "Dot"} THEN PrecCall
  ELSE IF ttype = "And" THEN PrecAnd
  ELSE IF ttype = "Or" THEN PrecOr
  ELSE PrecNone

get_precedence(ttype) ==
  IF ttype \in {"Minus", "Plus"} THEN PrecTerm
  ELSE IF ttype \in {"Slash", "Star"} THEN PrecFactor
  ELSE IF ttype \in {"BangEqual", "EqualEqual"} THEN PrecEquality
  ELSE IF ttype \in {"Greater", "GreaterEqual", "Less", "LessEqual"}
       THEN PrecComparison
  ELSE IF ttype \in {"LeftParen", "Dot"} THEN PrecCall
  ELSE IF ttype = "And" THEN PrecAnd
  ELSE IF ttype = "Or" THEN PrecOr
  ELSE PrecNone

BinaryTokens ==
  {"Minus", "Plus", "Slash", "Star", "BangEqual", "EqualEqual", "Greater",
   "GreaterEqual", "Less", "LessEqual"}

\* add_upvalue! without the search: the entry is always appended
add_upvalue_always(upvalues, index, is_local) ==
  [ups |-> Append(upvalues, [index |-> index, is_local |-> is_local]),
   idx |-> Len(upvalues)]

\* The macro add_upvalue!: the position of (index, is_local) in the table,
\* appended when it is not there.  [ups |-> the table, idx |-> the position]
add_upvalue(upvalues, index, is_local) ==
  LET val == [index |-> index, is_local |-> is_local]
      Found == {i \in 1..Len(upvalues) : upvalues[i] = val}
  IN IF Found # {}
     THEN [ups |-> upvalues, idx |-> (CHOOSE i \in Found : \A j \in Found : j <= i) - 1]
     ELSE [ups |-> Append(upvalues, val), idx |-> Len(upvalues)]

\* The loop of add_upvalues over scope_history[from..]: each frame records
\* the entry of the frame outside it.
RECURSIVE thread_upvalues(_, _, _)
thread_upvalues(p, i, current) ==
  IF i > Len(p.scope_history)
  THEN LET r == add_upvalue(p.scope.upvalues, current, FALSE)
       IN Ret([p EXCEPT !.scope.upvalues = r.ups], r.idx)
  ELSE LET r == add_upvalue(p.scope_history[i].upvalues, current, FALSE)
       IN thread_upvalues([p EXCEPT !.scope_history[i].upvalues = r.ups],
                          i + 1, r.idx)

\* pos: 0-based index into the locals of scope_history[depth] (1-based here)
add_upvalues(p, pos, depth) ==
  LET q == [p EXCEPT !.scope_history[depth].locals[pos + 1].is_captured = TRUE]
  IN IF depth = Len(q.scope_history)
     THEN LET r == add_upvalue(q.scope.upvalues, pos, TRUE)
          IN Ret([q EXCEPT !.scope.upvalues = r.ups], r.idx)
     ELSE LET r == add_upvalue(q.scope_history[depth + 1].upvalues, pos, TRUE)
          IN thread_upvalues([q EXCEPT !.scope_history[depth + 1].upvalues = r.ups],
                             depth + 2, r.idx)

\* The topmost local of `locals` named like `token`, 0 when there is none.
TopLocal(locals, token) ==
  LET Hit == {i \in 1..Len(locals) : identifier_equal(token, locals[i].name)}
  IN IF Hit = {} THEN 0 ELSE CHOOSE i \in Hit : \A j \in Hit : j <= i

\* p.ret: the upvalue index, -1 for None
resolve_upvalue(p) ==
  IF Failed(p) THEN p
  ELSE LET Frames == {d \in 1..Len(p.scope_history) :
                        TopLocal(p.scope_history[d].locals, p.previous) # 0}
       IN IF Frames = {} THEN Ret(p, -1)
          ELSE LET d == CHOOSE x \in Frames : \A y \in Frames : y <= x
               IN add_upvalues(p, TopLocal(p.scope_history[d].locals, p.previous) - 1, d)

\* the depth of the local found is not looked at
resolve_local_any_depth(p) ==
  IF Failed(p) THEN p
  ELSE LET i == TopLocal(p.scope.locals, p.previous)
       IN IF i = 0 THEN Ret(p, -1) ELSE Ret(p, i - 1)

\* p.ret: the local's index, -1 for None
resolve_local(p) ==
  IF Failed(p) THEN p
  ELSE LET i == TopLocal(p.scope.locals, p.previous)
       IN IF i = 0 THEN Ret(p, -1)
          ELSE IF p.scope.locals[i].depth = -1
          THEN Fail(p, "Can't read local variable in its own identifier")
          ELSE Ret(p, i - 1)

literal(p) ==
  IF Failed(p) THEN p
  ELSE IF p.previous.ttype = "False" THEN emit_byte(p, OP_FALSE)
  ELSE IF p.previous.ttype = "Nil" THEN emit_byte(p, OP_NIL)
  ELSE IF p.previous.ttype = "True" THEN emit_byte(p, OP_TRUE)
  ELSE Fail(p, "expect expression.")

\* The methods of Parser call one another: Parser(method, p, arg) is the
\* call self.method(arg) of parse_precedence, statement and declaration.
RECURSIVE Parser(_, _, _)

expression(p) == Parser("parse_precedence", p, PrecAssignment)

grouping(p) == expect(expression(p), "RightParen")

unary(p) ==
  IF Failed(p) THEN p
  ELSE LET op == p.previous.ttype
           q == expression(p)
       IN IF op = "Minus" THEN emit_byte(q, OP_NEGATE)
          ELSE IF op = "Bang" THEN emit_byte(q, OP_NOT)
          ELSE IF Failed(q) THEN q ELSE Fail(q, "is not an unary operator.")

binary(p) ==
  IF Failed(p) THEN p
  ELSE LET op == p.previous.ttype
           q == Parser("parse_precedence", p, PrecNext(get_precedence(op)))
       IN CASE op = "Plus" -> emit_byte(q, OP_ADD)
            [] op = "Minus" -> emit_byte(q, OP_SUBTRACT)
            [] op = "Star" -> emit_byte(q, OP_MULTIPLY)
            [] op = "Slash" -> emit_byte(q, OP_DIVIDE)
            [] op = "BangEqual" -> emit_bytes(q, OP_EQUAL, OP_NOT)
            [] op = "EqualEqual" -> emit_byte(q, OP_EQUAL)
            [] op = "Greater" -> emit_byte(q, OP_GREATER)
            [] op = "GreaterEqual" -> emit_bytes(q, OP_LESS, OP_NOT)
            [] op = "Less" -> emit_byte(q, OP_LESS)
            [] op = "LessEqual" -> emit_bytes(q, OP_GREATER, OP_NOT)
            [] OTHER -> IF Failed(q) THEN q ELSE Fail(q, "is not a binary operator.")

\* Not in the source: before the instruction of an identifier use is
\* emitted, remember its offset, the name, the names declared as locals
\* (parameters and block variables) in the function being compiled when the
\* name was resolved, those declared in the enclosing functions, and the
\* names of the locals that had depth -1 then; also how many function levels
\* out the nearest enclosing function with a local of that name is (0 when
\* there is none) and the slot of that local. The first local of a Scope is
\* the one Scope::init makes, not a declaration.
Declared(scope) == {scope.locals[i].name.lex : i \in 2..Len(scope.locals)}

\* the enclosing scopes that have a local named like the token just read
EnclosingHits(at) ==
  {d \in 1..Len(at.scope_history) :
     \E i \in 1..Len(at.scope_history[d].locals) :
       at.scope_history[d].locals[i].name.lex = at.previous.lex}

EnclosingLevel(at) ==
  IF EnclosingHits(at) = {} THEN 0
  ELSE Len(at.scope_history) + 1
         - (CHOOSE d \in EnclosingHits(at) : \A e \in EnclosingHits(at) : e <= d)

EnclosingSlot(at) ==
  IF EnclosingHits(at) = {} THEN 0
  ELSE LET locals == at.scope_history[Len(at.scope_history) + 1
                                        - EnclosingLevel(at)].locals
           Named == {i \in 1..Len(locals) : locals[i].name.lex = at.previous.lex}
       IN (CHOOSE i \in Named : \A j \in Named : j <= i) - 1

mark_use(p, at) ==
  IF Failed(p) THEN p
  ELSE [p EXCEPT !.chunk.uses =
          Append(@, [off |-> Len(p.chunk.code),
                     name |-> at.previous.lex,
                     own |-> Declared(at.scope),
                     pending |-> {at.scope.locals[i].name.lex :
                                    i \in {j \in 1..Len(at.scope.locals) :
                                             at.scope.locals[j].depth = -1}},
                     outer |-> UNION {Declared(at.scope_history[d]) :
                                        d \in 1..Len(at.scope_history)},
                     hops |-> EnclosingLevel(at),
                     slot |-> EnclosingSlot(at)])]

named_variable(p, can_assign) ==
  IF Failed(p) THEN p
  ELSE LET \* the code after (get_op, set_op, pos) is chosen; pos is q.ret
           access(q, get_op, set_op) ==
             IF Failed(q) THEN q
             ELSE IF can_assign /\ is_match(q, "Equal")
             THEN emit_bytes(mark_use(expression(match_advance(q, "Equal")), p),
                             set_op, q.ret)
             ELSE emit_bytes(mark_use(q, p), get_op, q.ret)
           \* u: after resolve_upvalue
           upvalue_or_global(u) ==
             IF Failed(u) \/ u.ret # -1
             THEN access(u, OP_GET_UPVALUE, OP_SET_UPVALUE)
             ELSE access(identifier_constant(u), OP_GET_GLOBAL, OP_SET_GLOBAL)
           \* l: after resolve_local
           local_or_other(l) ==
             IF Failed(l) \/ l.ret # -1
             THEN access(l, OP_GET_LOCAL, OP_SET_LOCAL)
             ELSE upvalue_or_global(resolve_upvalue(l))
       IN local_or_other(resolve_local(p))

dot(p, can_assign) ==
  LET q == identifier_constant(expect(p, "Identifier"))
      pos == q.ret
  IN IF Failed(q) THEN q
     ELSE IF can_assign /\ is_match(q, "Equal")
     THEN emit_bytes(expression(match_advance(q, "Equal")), OP_SET_PROPERTY, pos)
     ELSE emit_bytes(q, OP_GET_PROPERTY, pos)

\* the loop of arg_list; p.ret: cnt
RECURSIVE arg_list_loop(_, _)
arg_list_loop(p, cnt) ==
  LET q == expression(p)
  IN IF Failed(q) THEN q
     ELSE IF is_match(q, "Comma")
     THEN arg_list_loop(match_advance(q, "Comma"), (cnt + 1) % ByteRange)
     ELSE Ret(q, (cnt + 1) % ByteRange)

arg_list(p) ==
  IF Failed(p) THEN p
  ELSE LET q == IF ~is_match(p, "RightParen") THEN arg_list_loop(p, 0)
                ELSE Ret(p, 0)
           cnt == q.ret
       IN Ret(expect(q, "RightParen"), cnt)

call(p) ==
  LET q == arg_list(p)
  IN emit_bytes(q, OP_CALL, q.ret)

and(p) ==
  LET q == emit_jump(p, OP_JUMP_IF_FALSE)
      end_jump == q.ret
  IN patch_jump(Parser("parse_precedence", emit_byte(q, OP_POP), PrecAnd),
                end_jump)

or(p) ==
  LET q == emit_jump(p, OP_JUMP_IF_FALSE)
      else_jump == q.ret
      r == emit_jump(q, OP_JUMP)
      end_jump == r.ret
  IN patch_jump(Parser("parse_precedence",
                       emit_byte(patch_jump(r, else_jump), OP_POP), PrecOr),
                end_jump)

\* the while loop of parse_precedence
RECURSIVE infix_loop(_, _, _)
infix_loop(p, prec, can_assign) ==
  IF Failed(p) THEN p
  ELSE IF ~(prec <= get_precedence(p.current.ttype)) THEN p
  ELSE LET q == advance(p)
           t == q.previous.ttype
           r == IF t \in BinaryTokens THEN binary(q)
                ELSE IF t = "And" THEN and(q)
                ELSE IF t = "Or" THEN or(q)
                ELSE IF t = "LeftParen" THEN call(q)
                ELSE IF t = "Dot" THEN dot(q, can_assign)
                ELSE q
       IN infix_loop(r, prec, can_assign)

parse_precedence(p, prec) ==
  IF Failed(p) THEN p
  ELSE LET q == advance(p)
           can_assign == prec <= PrecAssignment
           t == q.previous.ttype
           r == IF t = "LeftParen" THEN grouping(q)
                ELSE IF t = "Number" THEN number(q)
                ELSE IF t \in {"Minus", "Bang"} THEN unary(q)
                ELSE IF t \in {"False", "True", "Nil"} THEN literal(q)
                ELSE IF t = "String" THEN string(q)
                ELSE IF t = "Identifier" THEN named_variable(q, can_assign)
                ELSE Fail(q, "expect expression.")
           \* s: after the while loop
           check_assign(s) ==
             IF Failed(s) THEN s
             ELSE IF can_assign /\ is_match(s, "Equal")
             THEN Fail(s, "Invalid assignment statement.")
             ELSE s
       IN check_assign(infix_loop(r, prec, can_assign))

\* the while loop of block
RECURSIVE block_loop(_)
block_loop(p) ==
  IF Failed(p) THEN p
  ELSE IF ~is_match(p, "RightBrace") /\ ~is_match(p, "Eof")
  THEN block_loop(Parser("declaration", p, 0))
  ELSE p

block(p) == expect(block_loop(p), "RightBrace")

expression_statement(p) ==
  emit_byte(expect(expression(p), "Semicolon"), OP_POP)

print_statement(p) ==
  emit_byte(expect(expression(p), "Semicolon"), OP_PRINT)

return_statement(p) ==
  IF Failed(p) THEN p
  ELSE IF is_match(p, "Semicolon")
  THEN emit_return(match_advance(p, "Semicolon"))
  ELSE emit_byte(expect(expression(p), "Semicolon"), OP_RETURN)

if_statement(p) ==
  LET c == expect(expression(expect(p, "LeftParen")), "RightParen")
      j == emit_jump(c, OP_JUMP_IF_FALSE)
      then_jump == j.ret
      t == Parser("statement", emit_byte(j, OP_POP), 0)
  IN IF Failed(t) THEN t
     ELSE IF is_match(t, "Else")
     THEN LET e == emit_jump(match_advance(t, "Else"), OP_JUMP)
              else_jump == e.ret
          IN patch_jump(Parser("statement",
                                emit_byte(patch_jump(e, then_jump), OP_POP), 0),
                        else_jump)
     ELSE patch_jump(t, then_jump)

while_statement(p) ==
  IF Failed(p) THEN p
  ELSE LET start == Len(p.chunk.code)
           c == expect(expression(expect(p, "LeftParen")), "RightParen")
           j == emit_jump(c, OP_JUMP_IF_FALSE)
           exit_jump == j.ret
           b == Parser("statement", emit_byte(j, OP_POP), 0)
       IN emit_byte(patch_jump(emit_loop(b, start), exit_jump), OP_POP)

statement(p) ==
  IF Failed(p) THEN p
  ELSE IF is_match(p, "Print") THEN print_statement(match_advance(p, "Print"))
  ELSE IF is_match(p, "If") THEN if_statement(match_advance(p, "If"))
  ELSE IF is_match(p, "Return") THEN return_statement(match_advance(p, "Return"))
  ELSE IF is_match(p, "While") THEN while_statement(match_advance(p, "While"))
  ELSE IF is_match(p, "LeftBrace")
  THEN end_scope(block(begin_scope(match_advance(p, "LeftBrace"))))
  ELSE expression_statement(p)

var_declaration(p) ==
  LET v == parse_variable(p)
      global == v.ret
      i == IF Failed(v) THEN v
           ELSE IF is_match(v, "Equal") THEN expression(match_advance(v, "Equal"))
           ELSE emit_byte(v, OP_NIL)
  IN mark_defined(define_variable(expect(i, "Semicolon"), global))

class_declaration(p) ==
  LET c == identifier_constant(expect(p, "Identifier"))
      constant == c.ret
      d == define_variable(emit_bytes(declare_variable(c), OP_CLASS, constant),
                           constant)
  IN expect(expect(mark_defined(d), "LeftBrace"), "RightBrace")

\* the loop over the parameters of function; p.ret: arity
RECURSIVE param_loop(_, _)
param_loop(p, arity) ==
  LET v == parse_variable(p)
      q == define_variable(v, v.ret)
  IN IF Failed(q) THEN q
     ELSE IF is_match(q, "Comma")
     THEN param_loop(match_advance(q, "Comma"), (arity + 1) % ByteRange)
     ELSE Ret(q, (arity + 1) % ByteRange)

function(p) ==
  IF Failed(p) THEN p
  ELSE LET name == p.previous.lex
           \* store old values
           n == begin_scope([p EXCEPT
                  !.chunk = NewChunk,
                  !.scope = ScopeInit(p.previous),
                  !.chunk_history = Append(@, p.chunk),
                  !.scope_history = Append(@, p.scope)])
           \* l: after the left parenthesis; p.ret: arity
           parameters(l) ==
             IF Failed(l) THEN l
             ELSE IF ~is_match(l, "RightParen") THEN param_loop(l, 0)
             ELSE Ret(l, 0)
           \* e: after OP_CLOSURE and its operand are emitted
           emit_upvalues(e, current) ==
             IF Failed(e) THEN e
             ELSE [e EXCEPT !.chunk.code = @ \o
                     [i \in 1..(2 * Len(current.upvalues)) |->
                        LET value == current.upvalues[(i + 1) \div 2]
                        IN IF i % 2 = 1
                           THEN (IF value.is_local THEN 1 ELSE 0)
                           ELSE value.index]]
           \* m: after make_constant
           emit_closure(m, current) ==
             emit_upvalues(emit_bytes(m, OP_CLOSURE, m.ret), current)
           \* b: after the body and emit_return
           finish(b, arity) ==
             IF Failed(b) THEN b
             ELSE LET func == [upvalue |-> Len(b.scope.upvalues),
                               arity |-> arity,
                               chunk |-> b.chunk,
                               name |-> name]
                      \* Restore old chunk and scope
                      r == [b EXCEPT
                              !.chunk = b.chunk_history[Len(b.chunk_history)],
                              !.scope = b.scope_history[Len(b.scope_history)],
                              !.chunk_history = SubSeq(@, 1, Len(@) - 1),
                              !.scope_history = SubSeq(@, 1, Len(@) - 1)]
                  IN emit_closure(make_constant(r, FunctionVal(func)), b.scope)
           \* a: after the parameters
           body(a) ==
             finish(emit_return(block(expect(expect(a, "RightParen"),
                                             "LeftBrace"))),
                    a.ret)
       IN body(parameters(expect(n, "LeftParen")))

fun_declaration(p) ==
  LET v == parse_variable(p)
      global == v.ret
  IN mark_defined(define_variable(function(make_initialized(v)), global))

declaration(p) ==
  IF Failed(p) THEN p
  ELSE IF is_match(p, "Class") THEN class_declaration(match_advance(p, "Class"))
  ELSE IF is_match(p, "Fun") THEN fun_declaration(match_advance(p, "Fun"))
  ELSE IF is_match(p, "Var") THEN var_declaration(match_advance(p, "Var"))
  ELSE statement(p)

Parser(method, p, arg) ==
  CASE method = "parse_precedence" -> parse_precedence(p, arg)
    [] method = "statement" -> statement(p)
    [] method = "declaration" -> declaration(p)

SyncTokens == {"Class", "Fun", "Var", "For", "If", "While", "Print", "Return"}

RECURSIVE synchronize(_)
synchronize(p) ==
  IF p.current.ttype = "Eof" THEN p
  ELSE IF p.previous.ttype = "Semicolon" THEN p
  ELSE IF p.current.ttype \in SyncTokens THEN p
  ELSE synchronize([advance(p) EXCEPT !.err = ""])

\* the error is printed and had_error is left as it was
handle_result_unflagged(p) ==
  IF Failed(p)
  THEN synchronize([advance([p EXCEPT !.err = "",
                                      !.reported = Append(@, p.err)])
                      EXCEPT !.err = ""])
  ELSE p

\* `reported` (not in the source) collects the reasons of the errors that
\* handle_result prints
handle_result(p) ==
  IF Failed(p)
  THEN synchronize([advance([p EXCEPT !.had_error = TRUE, !.err = "",
                                      !.reported = Append(@, p.err)])
                      EXCEPT !.err = ""])
  ELSE p

\* the while loop of parse; `marks` (not in the source) collects the code
\* offset at which each top-level declaration starts
RECURSIVE parse_loop(_)
parse_loop(p) ==
  IF is_match(p, "Eof") THEN match_advance(p, "Eof")
  ELSE parse_loop(handle_result(Parser("declaration",
         [p EXCEPT !.marks = @ \cup {Len(p.chunk.code)}], 0)))

NoFunction == [none |-> TRUE]

\* Parser::parse up to its final emit_return: the parser it leaves
parse_all(p) == emit_return(parse_loop(handle_result(advance(p))))

\* Parser::parse; NoFunction is None
parse(p) ==
  LET \* q: after the final emit_return
      result(q) ==
        IF q.had_error THEN NoFunction
        ELSE [arity |-> 0, upvalue |-> 0, chunk |-> q.chunk, name |-> "",
              marks |-> q.marks \cup {Len(q.chunk.code) - 2}]
  IN result(parse_all(p))

\* the Parser that compile builds for src, the sequence of the lexemes of the
\* source text
NewParser(src) ==
  [toks |-> src, pos |-> 1,
   previous |-> EofToken, current |-> EofToken,
   had_error |-> FALSE,
   chunk |-> NewChunk,
   scope |-> ScopeInit([ttype |-> "Identifier", lex |-> ""]),
   chunk_history |-> <<>>, scope_history |-> <<>>,
   err |-> "", ret |-> 0, marks |-> {}, reported |-> <<>>]

compile(src) == parse(NewParser(src))

\* the reasons of the errors compile(src) prints, in order
compile_errors(src) == parse_all(NewParser(src)).reported

\* ------------------------------------------------------------------------
\* Virtual machine (src/src/vm.rs)
\* ------------------------------------------------------------------------
VARIABLES
  stack,      \* VM.stack
  globals,    \* VM.globals: name -> value
  frames,     \* VM.frames: each [closure, ip, slot]
  captures,   \* VM.captures: stack address -> upvalue cell
  cells,      \* the Rc<RefCell<Upvalue>> cells ever allocated
  instances,  \* the Rc<RefCell<Instance>> objects ever allocated
  status,     \* "ready", "running" (inside run), "ok" / "error" (interpret
              \* returned), "panic" (the process aborted), "hung" (run
              \* spins), "rejected" (compile gave no function for src)
  error,      \* reason of the RuntimeError run returned last
  output,     \* the lines printed to stdout
  runs,       \* number of calls of interpret
  src         \* the source text given to compile last

\* The tree-walking interpreter (src/src/interpreter.rs) that run_file of
\* main.rs drives: a process runs either it or the virtual machine
VARIABLES
  environments,   \* the Rc<RefCell<Environment>> objects ever allocated,
                  \* each [values, enclosing]; environment 1 is the global one
  lox_instances,  \* the Rc<RefCell<LoxInstance>> objects ever allocated
  stmts,          \* the statements interpret has still to execute
  printed,        \* the lines println! wrote
  outcome         \* "idle", "running", "ok" / "error" (interpret returned)

tree_vars == <<environments, lox_instances, stmts, printed, outcome>>

vm_vars == <<stack, globals, frames, captures, cells, instances, status, error,
             output, runs, src>>

vars == <<vm_vars, tree_vars>>

\* enum Upvalue
UpStack(location) == [kind |-> "Stack", location |-> location]

UpOut(val) == [kind |-> "Out", val |-> val]

\* Instance::new
NewInstance(klass) == [klass |-> klass, fields |-> [x \in {} |-> 0]]

\* impl PartialEq for LoxType
LoxEq(a, b) ==
  IF a.t = "String" /\ b.t = "String" THEN a.s = b.s
  ELSE IF a.t = "Bool" /\ b.t = "Bool" THEN a.b = b.b
  ELSE FALSE

\* impl Display for LoxType
\* digits after the point that Display is followed to
MaxDigits == 3

\* the decimal digits of r / den after the point, at most k of them
RECURSIVE FractionDigits(_, _, _)
FractionDigits(r, den, k) ==
  IF r = 0 \/ k = 0 THEN ""
  ELSE ToString((r * 10) \div den) \o FractionDigits((r * 10) % den, den, k - 1)

\* Display of f64: an integral number without a point, infinities and NaN
\* by name, another quotient with its decimal digits
NumberString(v) ==
  IF "n" \in DOMAIN v THEN ToString(v.n)
  ELSE IF v.den = 0
       THEN (IF v.num > 0 THEN "inf" ELSE IF v.num < 0 THEN "-inf" ELSE "NaN")
  ELSE (IF (v.num < 0) # (v.den < 0) THEN "-" ELSE "")
         \o ToString(Abs(v.num) \div Abs(v.den)) \o "."
         \o FractionDigits(Abs(v.num) % Abs(v.den), Abs(v.den), MaxDigits)

Display(v, insts) ==
  CASE v.t = "String" -> v.s
    [] v.t = "Number" -> NumberString(v)
    [] v.t = "Bool" -> IF v.b THEN "true" ELSE "false"
    [] v.t = "Function" -> v.f.name
    [] v.t = "Closure" -> v.function.name
    [] v.t = "Class" -> v.name
    [] v.t = "Instance" -> "Instance of " \o insts[v.ref].klass
    [] v.t = "None" -> "Nil"

\* The test of OP_NOT and OP_JUMP_IF_FALSE for a false value
is_false_not(v) ==
  IF v.t = "None" THEN TRUE ELSE IF v.t = "Bool" THEN ~v.b ELSE FALSE

\* is_false_jump that also takes the Number 0 for false
is_false_jump_zero(v) ==
  IF v.t = "None" THEN TRUE
  ELSE IF v.t = "Bool" THEN ~v.b
  ELSE IF v.t = "Number" THEN v.n = 0
  ELSE FALSE

is_false_jump(v) ==
  IF v.t = "None" THEN TRUE ELSE IF v.t = "Bool" THEN ~v.b ELSE FALSE

\* HashMap::insert / remove on a map held as a function
MapInsert(m, k, v) == [x \in DOMAIN m \cup {k} |-> IF x = k THEN v ELSE m[x]]

MapRemove(m, k) == [x \in DOMAIN m \ {k} |-> m[x]]

EmptyMap == [x \in {} |-> 0]

\* VM::peek(distance), for distance < Len(stk)
peek(stk, distance) == stk[Len(stk) - distance]

\* Vec::pop / Vec::truncate
PopN(stk, n) == SubSeq(stk, 1, Len(stk) - n)

\* Truncate that keeps one value more
TruncateAbove(stk, len) ==
  IF len + 1 < Len(stk) THEN SubSeq(stk, 1, len + 1) ELSE stk

Truncate(stk, len) == IF len < Len(stk) THEN SubSeq(stk, 1, len) ELSE stk

\* VM::close_upvalues(slot) on the captures map, the cells and the stack:
\* the cell captured at `slot`, if any, takes the value on top of the stack.
close_upvalues(caps, cls, stk, slot) ==
  IF slot \in DOMAIN caps
  THEN [captures |-> MapRemove(caps, slot),
        cells |-> [cls EXCEPT ![caps[slot]] = UpOut(peek(stk, 0))]]
  ELSE [captures |-> caps, cells |-> cls]

\* the loop of OP_RETURN: close_upvalues(i) for i from `i` down to `slot`
RECURSIVE close_frame(_, _, _, _, _)
close_frame(caps, cls, stk, slot, i) ==
  IF i < slot THEN [captures |-> caps, cells |-> cls]
  ELSE LET r == close_upvalues(caps, cls, stk, i)
       IN close_frame(r.captures, r.cells, stk, slot, i - 1)

\* VM::call: the test of the argument count
CallArityOk(clos, arg_cnt) == arg_cnt = clos.function.arity

\* CallFrame with the slot one above the callee
CallFrameAboveCallee(clos, stk, arg_cnt) ==
  [closure |-> clos, ip |-> 0, slot |-> Len(stk) - arg_cnt,
   below |-> SubSeq(stk, 1, Len(stk) - arg_cnt - 1)]

\* VM::call: the frame pushed for clos called with arg_cnt arguments.
\* `below` is not in the source: it remembers the stack under the callee as
\* it was when the frame was pushed.
CallFrame(clos, stk, arg_cnt) ==
  [closure |-> clos, ip |-> 0, slot |-> Len(stk) - arg_cnt - 1,
   below |-> SubSeq(stk, 1, Len(stk) - arg_cnt - 1)]

\* The frame being run, its code and the next opcode
Cur == frames[Len(frames)]

CurChunk == Cur.closure.function.chunk

Code == CurChunk.code

Running == status = "running" /\ Len(frames) > 0 /\ Cur.ip < Len(Code)

\* The stack limit of run. The source has 16 * 256; the model scales it down
\* to a limit that an unbounded recursion reaches within a few calls and that
\* no other source text of Programs reaches.
StackLimit == 12

\* the limit test of run, made before each opcode is read
OverflowedLate == Len(stack) > StackLimit + 1

Overflowed == Len(stack) > StackLimit

\* run reads the opcode op: the limit test passed
Dispatch(op) == Running /\ ~Overflowed /\ Code[Cur.ip + 1] = op

\* CallFrame::read_chunk for the k-th byte after the opcode
HasBytes(n) == Cur.ip + n < Len(Code)

Operand(k) == Code[Cur.ip + 1 + k]

\* frames with the ip of the current frame moved past n bytes
Moved(n) == [frames EXCEPT ![Len(frames)].ip = @ + n]

\* run returns Err(reason) having read n bytes: interpret resets the stack
Raise(reason, n) ==
  /\ status' = "error"
  /\ error' = reason
  /\ stack' = <<>>
  /\ frames' = Moved(n)
  /\ UNCHANGED <<globals, captures, cells, instances, output, runs, src, tree_vars>>

\* a panic (pop from an empty stack, index out of bounds) aborts the process
Panic ==
  /\ status' = "panic"
  /\ UNCHANGED <<stack, globals, frames, captures, cells, instances, error,
                 output, runs, src, tree_vars>>

\* the instruction completes: the stack becomes stk, n bytes were read
Continue(stk, n) ==
  /\ stack' = stk
  /\ frames' = Moved(n)
  /\ UNCHANGED <<status, error>>

\* Chunk::read_constant(k): "err" | "panic" | "ok"
ConstantStatus(k) ==
  IF k >= Len(Code) THEN "err"
  ELSE IF k >= Len(CurChunk.constants) THEN "panic"
  ELSE "ok"

Constant(k) == CurChunk.constants[k + 1]

\* An instruction with a one-byte constant operand: body, which reads the
\* constant as Constant(Operand(1)), when the operand and the constant can be
\* read
WithConstant(body) ==
  IF ~HasBytes(1) THEN Raise("Index out of Chunk", 2)
  ELSE IF ConstantStatus(Operand(1)) = "err" THEN Raise("Index out of Constant", 2)
  ELSE IF ConstantStatus(Operand(1)) = "panic" THEN Panic
  ELSE body

\* the limit test of run fails: run returns Err("Stack overflow") having read
\* nothing
StackOverflow == Running /\ Overflowed /\ Raise("Stack overflow", 0)

Init ==
  /\ stack = <<>>
  /\ globals = EmptyMap
  /\ frames = <<>>
  /\ captures = EmptyMap
  /\ cells = <<>>
  /\ instances = <<>>
  /\ status = "ready"
  /\ error = ""
  /\ output = <<>>
  /\ runs = 0
  /\ src = <<>>
  /\ environments = <<>>
  /\ lox_instances = <<>>
  /\ stmts = <<>>
  /\ printed = <<>>
  /\ outcome = "idle"

\* ------------------------------------------------------------------------
\* The source texts given to interpret, each the sequence of its lexemes
\* ------------------------------------------------------------------------
\* scenario 5 of the spec: a closure outlives the frame it captured from
ProgClosureReturn ==
  <<"fun", "mk", "(", ")", "{", "var", "x", "=", "\"s\"", ";", "fun",
    "inner", "(", ")", "{", "print", "x", ";", "}", "return", "inner", ";",
    "}", "var", "g", "=", "mk", "(", ")", ";", "g", "(", ")", ";">>

\* scenario 6 of the spec, shortened: two closures over one local
ProgCounter ==
  <<"fun", "mk", "(", ")", "{", "var", "a", "=", "1", ";", "fun", "inc", "(",
    ")", "{", "a", "=", "a", "+", "1", ";", "print", "a", ";", "}", "fun",
    "get", "(", ")", "{", "print", "a", ";", "}", "inc", "(", ")", ";",
    "get", "(", ")", ";", "return", "get", ";", "}", "var", "g", "=", "mk",
    "(", ")", ";", "g", "(", ")", ";">>

\* a local captured through an intermediate function
ProgNested ==
  <<"fun", "a", "(", ")", "{", "var", "x", "=", "1", ";", "fun", "b", "(",
    ")", "{", "fun", "c", "(", ")", "{", "print", "x", ";", "}", "c", "(",
    ")", ";", "}", "b", "(", ")", ";", "}", "a", "(", ")", ";">>

\* test_closure2, shortened: captures in a block of the script
ProgBlockCapture ==
  <<"{", "var", "a", "=", "1", ";", "fun", "f", "(", ")", "{", "print", "a",
    ";", "}", "var", "b", "=", "2", ";", "fun", "g", "(", ")", "{", "b", "=",
    "3", ";", "print", "b", ";", "}", "f", "(", ")", ";", "g", "(", ")", ";",
    "print", "b", ";", "}">>

\* an if without else whose condition is false
ProgIfNoElse ==
  <<"if", "(", "false", ")", "print", "1", ";", "print", "2", ";">>

\* a local declared after an if without else
ProgIfThenLocal ==
  <<"{", "if", "(", "false", ")", "print", "1", ";", "var", "x", "=", "5",
    ";", "print", "x", ";", "}">>

\* test_while_statement, shortened
ProgWhile ==
  <<"var", "x", "=", "0", ";", "while", "(", "x", "<", "2", ")", "{", "x",
    "=", "x", "+", "1", ";", "}", "print", "x", ";">>

\* test_local_variable, shortened
ProgLocals ==
  <<"var", "x", "=", "1", ";", "{", "var", "x", "=", "2", ";", "print", "x",
    ";", "var", "y", "=", "3", ";", "x", "=", "x", "+", "y", ";", "print",
    "x", ";", "}", "print", "x", ";">>

\* a call with as many arguments as parameters
ProgCallOk ==
  <<"fun", "f", "(", "a", ",", "b", ")", "{", "return", "a", "-", "b", ";",
    "}", "print", "f", "(", "3", ",", "1", ")", ";">>

\* a call with fewer arguments than parameters
ProgCallArity ==
  <<"fun", "f", "(", "a", ")", "{", "return", "a", ";", "}", "f", "(", ")",
    ";">>

\* a call inside a call
ProgCallNested ==
  <<"fun", "id", "(", "a", ")", "{", "return", "a", ";", "}", "fun", "tw",
    "(", "a", ")", "{", "return", "id", "(", "a", ")", "*", "2", ";", "}",
    "print", "tw", "(", "1", ")", "+", "1", ";">>

\* test_class_without_method, shortened
ProgClass ==
  <<"class", "P", "{", "}", "var", "p", "=", "P", "(", ")", ";", "var", "q",
    "=", "p", ";", "p", ".", "a", "=", "1", ";", "print", "q", ".", "a", ";",
    "print", "p", ";">>

\* two variables holding one instance, a third holding another instance of
\* the class; the field assigned through the first is read through the other
\* two
ProgShare ==
  <<"class", "P", "{", "}", "var", "p", "=", "P", "(", ")", ";", "var", "q",
    "=", "p", ";", "var", "r", "=", "P", "(", ")", ";", "p", ".", "a", "=",
    "1", ";", "print", "q", ".", "a", ";", "print", "r", ".", "a", ";">>

\* a class called with an argument
ProgClassArgs ==
  <<"class", "P", "{", "}", "P", "(", "1", ")", ";", "print", "2", ";">>

\* reading an undefined global
ProgUndefined ==
  <<"print", "x", ";">>

\* assigning an undefined global, another global being defined
ProgSetUndefined ==
  <<"var", "e", "=", "1", ";", "x", "=", "2", ";", "print", "x", ";">>

\* a function that reads the global it is named after, called after the
\* global is assigned another value
ProgSelfName ==
  <<"fun", "f", "(", ")", "{", "print", "f", ";", "}", "var", "g", "=", "f",
    ";", "f", "=", "1", ";", "g", "(", ")", ";">>

\* a parameter, a block variable, a local of the enclosing function and a
\* global, read and assigned in one function
ProgResolve ==
  <<"var", "a", "=", "1", ";", "fun", "o", "(", "b", ")", "{", "var", "c",
    "=", "2", ";", "fun", "i", "(", "d", ")", "{", "a", "=", "b", ";", "c",
    "=", "d", ";", "print", "c", ";", "}", "i", "(", "a", ")", ";", "}",
    "o", "(", "3", ")", ";">>

\* a block that declares x, then y in the same block or in a nested one
ShadowProg(x, y, nested) ==
  <<"{", "var", x, "=", "1", ";">>
  \o (IF nested THEN <<"{">> ELSE <<>>)
  \o <<"var", y, "=", "2", ";", "print", y, ";">>
  \o (IF nested THEN <<"}">> ELSE <<>>)
  \o <<"print", x, ";", "}">>

\* a function with the parameter x that declares y in its body
ParamProg(x, y) ==
  <<"fun", "f", "(", x, ")", "{", "var", y, "=", "2", ";", "print", y, ";",
    "print", x, ";", "}", "f", "(", "1", ")", ";">>

\* a function with the parameters x and y
ParamsProg(x, y) ==
  <<"fun", "f", "(", x, ",", y, ")", "{", "print", y, ";", "print", x, ";",
    "}", "f", "(", "1", ",", "2", ")", ";">>

\* x declared again after a nested block that declared y
AfterBlockProg(x, y) ==
  <<"{", "var", x, "=", "1", ";", "{", "var", y, "=", "2", ";", "}", "var",
    y, "=", "2", ";", "print", y, ";", "print", x, ";", "}">>

\* a block that declares x, and in a nested block y with the initializer z
InitProg(x, y, z) ==
  <<"{", "var", x, "=", "1", ";", "{", "var", y, "=", z, ";", "print", y,
    ";", "}", "}">>

ScopeNames == {"a", "b"}

InitPrograms ==
  {InitProg(x, y, z) : x \in ScopeNames, y \in ScopeNames, z \in ScopeNames}

ScopePrograms ==
  {ShadowProg(x, y, n) : x \in ScopeNames, y \in ScopeNames, n \in BOOLEAN}
  \cup {ParamProg(x, y) : x \in ScopeNames, y \in ScopeNames}
  \cup {ParamsProg(x, y) : x \in ScopeNames, y \in ScopeNames}
  \cup {AfterBlockProg(x, y) : x \in ScopeNames, y \in ScopeNames}

\* calling an undefined global
ProgCallUndefined ==
  <<"var", "d", "=", "1", ";", "nope", "(", ")", ";">>

\* a script that returns a closure
ProgReturnClosure ==
  <<"fun", "f", "(", ")", "{", "print", "7", ";", "}", "return", "f", ";">>

\* a runtime error inside a called function
ProgErrorInFunction ==
  <<"fun", "f", "(", ")", "{", "print", "x", ";", "}", "f", "(", ")", ";">>

\* a function that calls itself without bound
ProgRecurse == <<"fun", "f", "(", ")", "{", "f", "(", ")", ";", "}", "f", "(", ")", ";">>

\* the same with a parameter and a local in each frame
ProgRecurseArgs ==
  <<"fun", "f", "(", "n", ")", "{", "var", "m", "=", "n", ";", "f", "(", "m",
    ")", ";", "}", "f", "(", "1", ")", ";">>

\* stmt repeated n times
RECURSIVE Repeat(_, _)
Repeat(stmt, n) == IF n = 0 THEN <<>> ELSE stmt \o Repeat(stmt, n - 1)

\* the expression statements `name;` for the first n names
RECURSIVE UseEach(_, _)
UseEach(names, n) ==
  IF n = 0 THEN <<>> ELSE UseEach(names, n - 1) \o <<names[n], ";">>

GlobalNames ==
  <<"a", "b", "c", "d", "e", "f", "g", "h", "i", "j", "k", "l", "m", "n",
    "o", "p", "q", "r", "s", "t">>

\* one global name used once more than the pool has places
ProgManyUses == Repeat(<<"x", ";">>, MaxConstants + 1)

\* one number used once more than the pool has places
ProgManyNumbers == Repeat(<<"1", ";">>, MaxConstants + 1)

\* one global name used as often as the pool has places
ProgFullPool == Repeat(<<"x", ";">>, MaxConstants)

\* one more distinct global name than the pool has places
ProgManyDistinct == UseEach(GlobalNames, MaxConstants + 1)

\* as many distinct global names as the pool has places
ProgFullDistinct == UseEach(GlobalNames, MaxConstants)

\* a parse error (print without an expression) before, after, between and
\* inside valid declarations
ProgErrorFirst == <<"print", ";", "print", "1", ";">>

ProgErrorLast == <<"print", "1", ";", "print", ";">>

ProgErrorMiddle ==
  <<"var", "x", "=", "1", ";", "x", "=", ";", "print", "x", ";">>

ProgErrorInBody ==
  <<"fun", "f", "(", ")", "{", "print", ";", "}", "f", "(", ")", ";">>

ProgTwoErrors == <<"print", ";", "var", "x", "=", "1", ";", "print", ";">>

\* prog with the lexeme c put after its first i lexemes
InsertAt(prog, i, c) ==
  SubSeq(prog, 1, i) \o <<c>> \o SubSeq(prog, i + 1, Len(prog))

\* the texts into which an invalid character is put, at every position
InvalidBases ==
  {<<"{", "var", "x", "=", "1", ";", "print", "x", ";", "}">>,
   <<"print", "f", "(", "1", ",", "2", ")", ";">>,
   <<"{", "}", "}">>}

InvalidPrograms ==
  UNION {{InsertAt(base, i, c) : i \in 0..Len(base), c \in InvalidChars} :
           base \in InvalidBases}

\* test_if_statement, shortened
ProgLogic ==
  <<"var", "x", "=", "true", ";", "var", "y", "=", "false", ";", "if", "(",
    "x", "or", "y", ")", "print", "\"T\"", ";", "else", "print", "\"E\"",
    ";", "if", "(", "x", "and", "y", ")", "print", "\"E\"", ";", "else",
    "print", "\"T\"", ";">>

\* the arithmetic and comparison operators
ProgArith ==
  <<"print", "-", "1", ";", "print", "!", "nil", ";", "print", "2", ">", "1",
    ";", "print", "1", "<=", "2", ";", "print", "\"s\"", "+", "\"o\"", ";",
    "x", "=", "1", ";">>

\* an exact division, one with a fraction, and two by zero
ProgDivide ==
  <<"print", "6", "/", "2", ";", "print", "7", "/", "2", ";", "print", "0",
    "/", "0", ";", "print", "6", "/", "0", ";", "print", "\"E\"", ";">>

\* each of the five operators with an operand that is no Number
MismatchOps == {"-", "*", "/", ">", "<"}

MismatchProg(op, left) ==
  IF left THEN <<"print", "true", op, "1", ";">>
  ELSE <<"print", "1", op, "\"s\"", ";">>

\* if (c) print "T"; else print "E";
IfProg(c) ==
  <<"if", "(", c, ")", "print", "\"T\"", ";", "else", "print", "\"E\"", ";">>

CondLexemes == {"nil", "false", "true", "0", "1", "\"\"", "\"s\""}

\* print a == b;
EqProg(a, b) == <<"print", a, "==", b, ";">>

EqLexemes == {"1", "2", "\"s\"", "\"o\"", "true", "false", "nil"}

\* print !c;
NotProg(c) == <<"print", "!", c, ";">>

\* var a = 1; var b = 2; lhs = 3;   (test_invalid_assignment with lhs a * b)
AssignProg(lhs) ==
  <<"var", "a", "=", "1", ";", "var", "b", "=", "2", ";">> \o lhs
    \o <<"=", "3", ";">>

\* expressions that are neither a variable nor a property access
NonLvalues ==
  {<<"a", "*", "b">>, <<"a", "+", "b">>, <<"a", "==", "b">>, <<"(", "a", ")">>,
   <<"1">>, <<"\"s\"">>, <<"nil">>, <<"a", "(", ")">>, <<"a", "*", "b", ".", "c">>,
   <<"-", "a">>, <<"!", "a">>}

\* a variable and property accesses
Lvalues == {<<"a">>, <<"a", ".", "c">>, <<"a", ".", "c", ".", "c">>}

AssignPrograms == {AssignProg(lhs) : lhs \in NonLvalues \cup Lvalues}

UnaryLexemes == {"-", "!"}

BinaryLexemes == {"+", "-", "*", "/", "==", "!=", "<", "<=", ">", ">="}

\* print u 6 op 2;
UnaryProg(u, op) == <<"print", u, "6", op, "2", ";">>

UnaryPrograms == {UnaryProg(u, op) : u \in UnaryLexemes, op \in BinaryLexemes}

\* Expressions as trees: a leaf [lex] or a node [op, l, r]
Leaf(lex) == [lex |-> lex]

Node(op, l, r) == [op |-> op, l |-> l, r |-> r]

IsLeaf(t) == "lex" \in DOMAIN t

\* the levels of the grammar: equality, comparison, term, factor
Level(op) ==
  IF op \in {"==", "!="} THEN 0
  ELSE IF op \in {"<", "<=", ">", ">="} THEN 1
  ELSE IF op \in {"+", "-"} THEN 2
  ELSE 3

\* The lexemes of the expression t, with parentheses around an operand whose
\* operator is of a lower level than min
RECURSIVE Lexemes(_, _)
Lexemes(t, min) ==
  IF IsLeaf(t) THEN <<t.lex>>
  ELSE LET inner == Lexemes(t.l, Level(t.op)) \o <<t.op>>
                      \o Lexemes(t.r, Level(t.op) + 1)
       IN IF Level(t.op) >= min THEN inner ELSE <<"(">> \o inner \o <<")">>

TreeOps == {"+", "-", "*", "/", "<", ">=", "=="}

\* (8 o1 4) o2 2 and 8 o1 (4 o2 2)
LeftTree(o1, o2) == Node(o2, Node(o1, Leaf("8"), Leaf("4")), Leaf("2"))

RightTree(o1, o2) == Node(o1, Leaf("8"), Node(o2, Leaf("4"), Leaf("2")))

Trees ==
  {LeftTree(o1, o2) : o1 \in TreeOps, o2 \in TreeOps}
    \cup {RightTree(o1, o2) : o1 \in TreeOps, o2 \in TreeOps}

\* print t;
ExprProg(t) == <<"print">> \o Lexemes(t, 0) \o <<";">>

ExprPrograms == {ExprProg(t) : t \in Trees}

\* a function that reads and writes one parameter of the enclosing function
\* and reads another
ProgTwiceCapture ==
  <<"fun", "a", "(", "x", ",", "y", ")", "{", "fun", "b", "(", ")", "{",
    "print", "x", ";", "x", "=", "y", ";", "print", "x", ";", "}", "b", "(",
    ")", ";", "}", "a", "(", "1", ",", "2", ")", ";">>

\* a runtime error while a local of a block is captured
ProgErrorWhileOpen ==
  <<"{", "var", "a", "=", "1", ";", "fun", "f", "(", ")", "{", "print", "a",
    ";", "}", "print", "x", ";", "}">>

Programs ==
  {ProgClosureReturn, ProgCounter, ProgNested, ProgBlockCapture, ProgIfNoElse, ProgIfThenLocal, ProgWhile, ProgLocals, ProgCallOk, ProgCallArity, ProgCallNested, ProgClass, ProgClassArgs, ProgUndefined, ProgCallUndefined, ProgReturnClosure, ProgLogic, ProgArith, ProgErrorInFunction, ProgRecurse, ProgRecurseArgs,
   ProgManyUses, ProgManyNumbers, ProgFullPool, ProgManyDistinct, ProgFullDistinct,
   ProgSetUndefined, ProgShare, ProgSelfName, ProgResolve, ProgErrorFirst, ProgErrorLast, ProgErrorMiddle, ProgErrorInBody, ProgTwoErrors,
   ProgDivide, ProgTwiceCapture, ProgErrorWhileOpen}
  \cup AssignPrograms
  \cup UnaryPrograms
  \cup ExprPrograms
  \cup {MismatchProg(op, left) : op \in MismatchOps, left \in BOOLEAN}
  \cup InvalidPrograms
  \cup ScopePrograms
  \cup InitPrograms
  \cup {IfProg(c) : c \in CondLexemes}
  \cup {NotProg(c) : c \in CondLexemes}
  \cup {EqProg(a, b) : a \in EqLexemes, b \in EqLexemes}

\* the function compile gives for each source text of Programs
Compiled == [prog \in Programs |-> compile(prog)]

\* the errors compile prints for each source text of Programs
Reported == [prog \in Programs |-> compile_errors(prog)]

\* interpret is called at most MaxRuns times on one VM
MaxRuns == 2

\* the source texts given to the calls of interpret after the first one
LaterPrograms == {ProgUndefined, ProgCallOk, ProgCallArity, ProgLocals}

\* VM::interpret up to its call of run, for the function compile gives for
\* the source text prog
Interpret(prog) ==
  /\ status \in {"ready", "ok", "error", "rejected"}
  /\ runs < MaxRuns
  /\ runs = 0 \/ prog \in LaterPrograms
  /\ LET interpret(func) ==
           /\ func # NoFunction
           /\ LET clos == ClosureVal(func, <<>>)
                  stk == Append(stack, clos)
              IN /\ stack' = stk
                 /\ frames' = IF CallArityOk(clos, 0)
                              THEN Append(frames, CallFrame(clos, stk, 0))
                              ELSE frames
     IN interpret(Compiled[prog])
  /\ status' = "running"
  /\ runs' = runs + 1
  /\ src' = prog
  /\ UNCHANGED tree_vars
  /\ UNCHANGED <<globals, captures, cells, instances, error, output>>

\* the longest source text given as characters
MaxText == 3

\* characters of the source texts given as characters
TextChars == {"\"", "/", ".", "1", "a", " ", "\n"}

\* the source texts given as characters
Texts == UNION {[1..n -> TextChars] : n \in 1..MaxText}

\* compile(text) for a source text on which the scanner faults: the process
\* aborts before a function is made
ScanAborts(text) ==
  /\ status = "ready"
  /\ ScanFaults(init_scanner(text))
  /\ status' = "panic"
  /\ src' = text
  /\ UNCHANGED tree_vars
  /\ UNCHANGED <<stack, globals, frames, captures, cells, instances, error,
                 output, runs>>

\* compile gives None for the source text prog: interpret is not called
Rejected(prog) ==
  /\ status \in {"ready", "ok", "error", "rejected"}
  /\ runs < MaxRuns
  /\ runs = 0 \/ prog \in LaterPrograms
  /\ Compiled[prog] = NoFunction
  /\ status' = "rejected"
  /\ src' = prog
  /\ UNCHANGED tree_vars
  /\ UNCHANGED <<stack, globals, frames, captures, cells, instances, error,
                 output, runs>>

OpReturn ==
  /\ Dispatch(OP_RETURN)
  /\ IF Len(stack) = 0 THEN Panic
     ELSE LET ret == peek(stack, 0)
              stk == PopN(stack, 1)
              closed == close_frame(captures, cells, stk, Cur.slot, Len(stk) - 1)
              rest == SubSeq(frames, 1, Len(frames) - 1)
          IN IF rest = <<>>
             THEN IF stk = <<>> THEN Panic
                  ELSE /\ stack' = PopN(stk, 1)
                       /\ frames' = rest
                       /\ captures' = closed.captures
                       /\ cells' = closed.cells
                       /\ status' = "ok"
                       /\ UNCHANGED <<globals, instances, error, output, runs, src, tree_vars>>
             ELSE /\ stack' = Append(Truncate(stk, Cur.slot), ret)
                  /\ frames' = rest
                  /\ captures' = closed.captures
                  /\ cells' = closed.cells
                  /\ UNCHANGED <<globals, instances, status, error, output, runs, src, tree_vars>>

ConstantBody(constant) ==
  /\ Continue(Append(stack, constant), 2)
  /\ UNCHANGED <<globals, captures, cells, instances, output, runs, src, tree_vars>>

OpConstant == Dispatch(OP_CONSTANT) /\ WithConstant(ConstantBody(Constant(Operand(1))))

OpNegate ==
  /\ Dispatch(OP_NEGATE)
  /\ IF Len(stack) = 0 THEN Panic
     ELSE IF peek(stack, 0).t = "Number"
     THEN /\ Continue(Append(PopN(stack, 1), Number(0 - peek(stack, 0).n)), 1)
          /\ UNCHANGED <<globals, captures, cells, instances, output, runs, src, tree_vars>>
     ELSE Raise("Operand must be a number", 1)

OpAdd ==
  /\ Dispatch(OP_ADD)
  /\ IF Len(stack) < 2 THEN Panic
     ELSE LET a == peek(stack, 0)
              b == peek(stack, 1)
          IN IF a.t = "Number" /\ b.t = "Number"
             THEN /\ Continue(Append(PopN(stack, 2), Number(b.n + a.n)), 1)
                  /\ UNCHANGED <<globals, captures, cells, instances, output, runs, src, tree_vars>>
             ELSE IF a.t = "String" /\ b.t = "String"
             THEN /\ Continue(Append(PopN(stack, 2), Str(b.s \o a.s)), 1)
                  /\ UNCHANGED <<globals, captures, cells, instances, output, runs, src, tree_vars>>
             ELSE Raise("Operands must be numbers.", 1)

\* the macros binary_op! and binary_op_bool!: result is the value pushed,
\* computed from the numbers of the two topmost values
BinaryOp(result) ==
  IF Len(stack) < 2 THEN Panic
  ELSE LET a == peek(stack, 0)
           b == peek(stack, 1)
       IN IF a.t = "Number" /\ b.t = "Number"
          THEN /\ Continue(Append(PopN(stack, 2), result), 1)
               /\ UNCHANGED <<globals, captures, cells, instances, output, runs, src, tree_vars>>
          ELSE Raise("Operands must be numbers.", 1)

SubResult(b, a) == Number(b - a)

MulResult(b, a) == Number(b * a)

DivResult(b, a) == Quotient(b, a)

GreaterResult(b, a) == Bool(b > a)

LessResult(b, a) == Bool(b < a)

OpSubtract == Dispatch(OP_SUBTRACT) /\ BinaryOp(SubResult(peek(stack, 1).n, peek(stack, 0).n))

OpMultiply == Dispatch(OP_MULTIPLY) /\ BinaryOp(MulResult(peek(stack, 1).n, peek(stack, 0).n))

OpDivide == Dispatch(OP_DIVIDE) /\ BinaryOp(DivResult(peek(stack, 1).n, peek(stack, 0).n))

OpGreater == Dispatch(OP_GREATER) /\ BinaryOp(GreaterResult(peek(stack, 1).n, peek(stack, 0).n))

OpLess == Dispatch(OP_LESS) /\ BinaryOp(LessResult(peek(stack, 1).n, peek(stack, 0).n))

Push(op, val) ==
  /\ Dispatch(op)
  /\ Continue(Append(stack, val), 1)
  /\ UNCHANGED <<globals, captures, cells, instances, output, runs, src, tree_vars>>

OpNil == Push(OP_NIL, Nil)

OpTrue == Push(OP_TRUE, Bool(TRUE))

OpFalse == Push(OP_FALSE, Bool(FALSE))

OpNot ==
  /\ Dispatch(OP_NOT)
  /\ IF Len(stack) = 0 THEN Panic
     ELSE /\ Continue(Append(PopN(stack, 1), Bool(is_false_not(peek(stack, 0)))), 1)
          /\ UNCHANGED <<globals, captures, cells, instances, output, runs, src, tree_vars>>

OpEqual ==
  /\ Dispatch(OP_EQUAL)
  /\ IF Len(stack) < 2 THEN Panic
     ELSE LET left == peek(stack, 0)
              right == peek(stack, 1)
          IN /\ Continue(Append(PopN(stack, 2), Bool(LoxEq(left, right))), 1)
             /\ UNCHANGED <<globals, captures, cells, instances, output, runs, src, tree_vars>>

OpPrint ==
  /\ Dispatch(OP_PRINT)
  /\ IF Len(stack) = 0 THEN Panic
     ELSE /\ Continue(PopN(stack, 1), 1)
          /\ output' = Append(output, Display(peek(stack, 0), instances))
          /\ UNCHANGED <<globals, captures, cells, instances, runs, src, tree_vars>>

OpPop ==
  /\ Dispatch(OP_POP)
  /\ IF Len(stack) = 0 THEN Panic
     ELSE /\ Continue(PopN(stack, 1), 1)
          /\ UNCHANGED <<globals, captures, cells, instances, output, runs, src, tree_vars>>

DefineGlobalBody(constant) ==
  IF constant.t = "String"
  THEN IF Len(stack) = 0 THEN Panic
       ELSE /\ globals' = MapInsert(globals, constant.s, peek(stack, 0))
            /\ Continue(PopN(stack, 1), 2)
            /\ UNCHANGED <<captures, cells, instances, output, runs, src, tree_vars>>
  ELSE Raise("is not a variable name.", 2)

OpDefineGlobal == Dispatch(OP_DEFINE_GLOBAL) /\ WithConstant(DefineGlobalBody(Constant(Operand(1))))

GetGlobalBody(constant) ==
  IF constant.t = "String"
  THEN IF constant.s \in DOMAIN globals
       THEN /\ Continue(Append(stack, globals[constant.s]), 2)
            /\ UNCHANGED <<globals, captures, cells, instances, output, runs, src, tree_vars>>
       ELSE Raise("Variable is not defined.", 2)
  ELSE Raise("is not a variable name.", 2)

OpGetGlobal == Dispatch(OP_GET_GLOBAL) /\ WithConstant(GetGlobalBody(Constant(Operand(1))))

\* the inserted value is left in the table when the name was not defined
SetGlobalBodyKeeps(constant) ==
  IF constant.t = "String"
  THEN IF Len(stack) = 0 THEN Panic
       ELSE IF constant.s \notin DOMAIN globals
       THEN /\ globals' = MapInsert(globals, constant.s, peek(stack, 0))
            /\ status' = "error"
            /\ error' = "is not defined before assignment."
            /\ stack' = <<>>
            /\ frames' = Moved(2)
            /\ UNCHANGED <<captures, cells, instances, output, runs, src, tree_vars>>
       ELSE /\ globals' = MapInsert(globals, constant.s, peek(stack, 0))
            /\ Continue(stack, 2)
            /\ UNCHANGED <<captures, cells, instances, output, runs, src, tree_vars>>
  ELSE Raise("is not a variable name.", 2)

\* the value is inserted first; when the name had no value the insertion is
\* undone by remove and run returns the error
SetGlobalBody(constant) ==
  IF constant.t = "String"
  THEN IF Len(stack) = 0 THEN Panic
       ELSE IF constant.s \notin DOMAIN globals
       THEN /\ globals' = MapRemove(MapInsert(globals, constant.s, peek(stack, 0)),
                                    constant.s)
            /\ status' = "error"
            /\ error' = "is not defined before assignment."
            /\ stack' = <<>>
            /\ frames' = Moved(2)
            /\ UNCHANGED <<captures, cells, instances, output, runs, src, tree_vars>>
       ELSE /\ globals' = MapInsert(globals, constant.s, peek(stack, 0))
            /\ Continue(stack, 2)
            /\ UNCHANGED <<captures, cells, instances, output, runs, src, tree_vars>>
  ELSE Raise("is not a variable name.", 2)

OpSetGlobal == Dispatch(OP_SET_GLOBAL) /\ WithConstant(SetGlobalBody(Constant(Operand(1))))

OpGetLocal ==
  /\ Dispatch(OP_GET_LOCAL)
  /\ IF ~HasBytes(1) THEN Raise("Index out of Chunk", 2)
     ELSE LET offset == Cur.slot + Operand(1)
          IN IF offset >= Len(stack) THEN Panic
             ELSE /\ Continue(Append(stack, stack[offset + 1]), 2)
                  /\ UNCHANGED <<globals, captures, cells, instances, output, runs, src, tree_vars>>

OpSetLocal ==
  /\ Dispatch(OP_SET_LOCAL)
  /\ IF ~HasBytes(1) THEN Raise("Index out of Chunk", 2)
     ELSE LET offset == Cur.slot + Operand(1)
          IN IF Len(stack) = 0 \/ offset >= Len(stack) THEN Panic
             ELSE /\ Continue([stack EXCEPT ![offset + 1] = peek(stack, 0)], 2)
                  /\ UNCHANGED <<globals, captures, cells, instances, output, runs, src, tree_vars>>

OpJumpIfFalse ==
  /\ Dispatch(OP_JUMP_IF_FALSE)
  /\ IF ~HasBytes(USIZE) THEN Raise("Index out of Chunk", 1)
     ELSE LET offset == read_jump(CurChunk, Cur.ip + 1)
          IN IF Len(stack) = 0 THEN Panic
             ELSE /\ Continue(stack, IF is_false_jump(peek(stack, 0))
                                     THEN 1 + USIZE + offset ELSE 1 + USIZE)
                  /\ UNCHANGED <<globals, captures, cells, instances, output, runs, src, tree_vars>>

OpJump ==
  /\ Dispatch(OP_JUMP)
  /\ IF ~HasBytes(USIZE) THEN Raise("Index out of Chunk", 1)
     ELSE /\ Continue(stack, 1 + USIZE + read_jump(CurChunk, Cur.ip + 1))
          /\ UNCHANGED <<globals, captures, cells, instances, output, runs, src, tree_vars>>

\* `current.ip -= offset` below zero: a panic where overflow is checked, an ip
\* beyond the chunk (run then spins on the same frame) where it wraps
OpLoop ==
  /\ Dispatch(OP_LOOP)
  /\ IF ~HasBytes(USIZE) THEN Raise("Index out of Chunk", 1)
     ELSE LET offset == read_jump(CurChunk, Cur.ip + 1)
          IN IF offset > Cur.ip + 1 + USIZE
             THEN /\ status' \in {"panic", "hung"}
                  /\ UNCHANGED <<stack, globals, frames, captures, cells,
                                 instances, error, output, runs, src, tree_vars>>
             ELSE /\ Continue(stack, 1 + USIZE - offset)
                  /\ UNCHANGED <<globals, captures, cells, instances, output, runs, src, tree_vars>>

OpCall ==
  /\ Dispatch(OP_CALL)
  /\ IF ~HasBytes(1) THEN Raise("Index out of Chunk", 2)
     ELSE LET cnt == Operand(1)
          IN IF cnt >= Len(stack) THEN Panic
             ELSE LET callee == peek(stack, cnt)
                  IN IF callee.t = "Closure"
                     THEN IF CallArityOk(callee, cnt)
                          THEN /\ frames' = Append(Moved(2),
                                                   CallFrame(callee, stack, cnt))
                               /\ UNCHANGED <<stack, globals, captures, cells,
                                              instances, status, error, output,
                                              runs, src, tree_vars>>
                          ELSE Raise("Expect arguments but got.", 2)
                     ELSE IF callee.t = "Class"
                     THEN /\ instances' = Append(instances, NewInstance(callee.name))
                          /\ Continue(Append(PopN(stack, 1),
                                             InstanceVal(Len(instances) + 1)), 2)
                          /\ UNCHANGED <<globals, captures, cells, output, runs, src, tree_vars>>
                     ELSE Raise("Variable is not callable.", 2)

ClassBody(constant) ==
  IF constant.t = "String"
  THEN /\ Continue(Append(stack, ClassVal(constant.s)), 2)
       /\ UNCHANGED <<globals, captures, cells, instances, output, runs, src, tree_vars>>
  ELSE Raise("Class name should be a string.", 2)

OpClass == Dispatch(OP_CLASS) /\ WithConstant(ClassBody(Constant(Operand(1))))

GetPropertyBody(constant) ==
  LET inst == instances[peek(stack, 0).ref]
  IN IF constant.t = "String"
     THEN IF constant.s \in DOMAIN inst.fields
          THEN /\ Continue(Append(PopN(stack, 1), inst.fields[constant.s]), 2)
               /\ UNCHANGED <<globals, captures, cells, instances, output, runs, src, tree_vars>>
          ELSE Raise("Property is not defined.", 2)
     ELSE Raise("is not a property name.", 2)

OpGetProperty ==
  /\ Dispatch(OP_GET_PROPERTY)
  /\ IF Len(stack) = 0 THEN Panic
     ELSE IF peek(stack, 0).t = "Instance" THEN WithConstant(GetPropertyBody(Constant(Operand(1))))
     ELSE Raise("is not an instance.", 1)

\* the field is stored in a copy of the instance
SetPropertyBodyCopy(constant) ==
  LET ref == peek(stack, 1).ref
      val == peek(stack, 0)
  IN IF constant.t = "String"
     THEN /\ instances' = Append(instances,
                                 [instances[ref] EXCEPT
                                    !.fields = MapInsert(@, constant.s, val)])
          /\ Continue(Append(PopN(stack, 2), val), 2)
          /\ UNCHANGED <<globals, captures, cells, output, runs, src, tree_vars>>
     ELSE Raise("is not a property name.", 2)

SetPropertyBody(constant) ==
  LET ref == peek(stack, 1).ref
      val == peek(stack, 0)
  IN IF constant.t = "String"
     THEN /\ instances' = [instances EXCEPT
                             ![ref].fields = MapInsert(@, constant.s, val)]
          /\ Continue(Append(PopN(stack, 2), val), 2)
          /\ UNCHANGED <<globals, captures, cells, output, runs, src, tree_vars>>
     ELSE Raise("is not a property name.", 2)

OpSetProperty ==
  /\ Dispatch(OP_SET_PROPERTY)
  /\ IF Len(stack) < 2 THEN Panic
     ELSE IF peek(stack, 1).t = "Instance" THEN WithConstant(SetPropertyBody(Constant(Operand(1))))
     ELSE Raise("is not an instance.", 1)

\* Capture without the lookup in the captures map: a local always gets a new
\* cell
CaptureAlwaysNew(caps, cls, is_local, index) ==
  IF is_local
  THEN [captures |-> MapInsert(caps, Cur.slot + index, Len(cls) + 1),
        cells |-> Append(cls, UpStack(Cur.slot + index)),
        cell |-> Len(cls) + 1, panic |-> FALSE]
  ELSE IF index >= Len(Cur.closure.upvalues)
       THEN [captures |-> caps, cells |-> cls, cell |-> 0, panic |-> TRUE]
       ELSE [captures |-> caps, cells |-> cls,
             cell |-> Cur.closure.upvalues[index + 1], panic |-> FALSE]

\* One upvalue of OP_CLOSURE: the cell for (is_local, index), taken from the
\* captures map or allocated.  [captures, cells, cell, panic]
Capture(caps, cls, is_local, index) ==
  IF is_local
  THEN LET address == Cur.slot + index
       IN IF address \in DOMAIN caps
          THEN [captures |-> caps, cells |-> cls, cell |-> caps[address],
                panic |-> FALSE]
          ELSE [captures |-> MapInsert(caps, address, Len(cls) + 1),
                cells |-> Append(cls, UpStack(address)),
                cell |-> Len(cls) + 1, panic |-> FALSE]
  ELSE IF index >= Len(Cur.closure.upvalues)
       THEN [captures |-> caps, cells |-> cls, cell |-> 0, panic |-> TRUE]
       ELSE [captures |-> caps, cells |-> cls,
             cell |-> Cur.closure.upvalues[index + 1], panic |-> FALSE]

\* the loop of OP_CLOSURE over the upvalue pairs k .. count-1
RECURSIVE capture_loop(_, _, _, _, _)
capture_loop(k, count, caps, cls, ups) ==
  IF k >= count
  THEN [captures |-> caps, cells |-> cls, upvalues |-> ups, panic |-> FALSE]
  ELSE LET c == Capture(caps, cls, Operand(2 + 2 * k) = 1, Operand(3 + 2 * k))
       IN IF c.panic
          THEN [captures |-> caps, cells |-> cls, upvalues |-> ups, panic |-> TRUE]
          ELSE capture_loop(k + 1, count, c.captures, c.cells, Append(ups, c.cell))

ClosureBody(constant) ==
  IF constant.t = "Function"
  THEN IF ~HasBytes(1 + 2 * constant.f.upvalue)
       THEN Raise("Index out of Chunk", Len(Code) - Cur.ip + 1)
       ELSE LET r == capture_loop(0, constant.f.upvalue, captures, cells, <<>>)
            IN IF r.panic THEN Panic
               ELSE /\ captures' = r.captures
                    /\ cells' = r.cells
                    /\ Continue(Append(stack, ClosureVal(constant.f, r.upvalues)),
                                2 + 2 * constant.f.upvalue)
                    /\ UNCHANGED <<globals, instances, output, runs, src, tree_vars>>
  ELSE Raise("Expect a function but get", 2)

OpClosure == Dispatch(OP_CLOSURE) /\ WithConstant(ClosureBody(Constant(Operand(1))))

OpGetUpvalue ==
  /\ Dispatch(OP_GET_UPVALUE)
  /\ IF ~HasBytes(1) THEN Raise("Index out of Chunk", 2)
     ELSE IF Operand(1) >= Len(Cur.closure.upvalues) THEN Panic
     ELSE LET cell == cells[Cur.closure.upvalues[Operand(1) + 1]]
          IN IF cell.kind = "Stack" /\ cell.location >= Len(stack) THEN Panic
             ELSE /\ Continue(Append(stack, IF cell.kind = "Stack"
                                            THEN stack[cell.location + 1]
                                            ELSE cell.val), 2)
                  /\ UNCHANGED <<globals, captures, cells, instances, output, runs, src, tree_vars>>

OpSetUpvalue ==
  /\ Dispatch(OP_SET_UPVALUE)
  /\ IF Len(stack) = 0 THEN Panic
     ELSE IF ~HasBytes(1) THEN Raise("Index out of Chunk", 2)
     ELSE IF Operand(1) >= Len(Cur.closure.upvalues) THEN Panic
     ELSE LET id == Cur.closure.upvalues[Operand(1) + 1]
              val == peek(stack, 0)
          IN IF cells[id].kind = "Stack"
             THEN IF cells[id].location >= Len(stack) THEN Panic
                  ELSE /\ Continue([stack EXCEPT ![cells[id].location + 1] = val], 2)
                       /\ UNCHANGED <<globals, captures, cells, instances, output,
                                      runs, src, tree_vars>>
             ELSE /\ cells' = [cells EXCEPT ![id] = UpOut(val)]
                  /\ Continue(stack, 2)
                  /\ UNCHANGED <<globals, captures, instances, output, runs, src, tree_vars>>

OpCloseUpvalue ==
  /\ Dispatch(OP_CLOSE_UPVALUE)
  /\ IF Len(stack) = 0 THEN Panic
     ELSE LET r == close_upvalues(captures, cells, stack, Len(stack) - 1)
          IN /\ captures' = r.captures
             /\ cells' = r.cells
             /\ Continue(PopN(stack, 1), 1)
             /\ UNCHANGED <<globals, instances, output, runs, src, tree_vars>>

Step ==
  \/ OpReturn \/ OpConstant \/ OpNegate \/ OpAdd \/ OpSubtract \/ OpMultiply
  \/ OpDivide
  \/ OpNil \/ OpTrue \/ OpFalse \/ OpNot \/ OpEqual \/ OpGreater \/ OpLess
  \/ OpPrint \/ OpPop \/ OpDefineGlobal \/ OpGetGlobal \/ OpSetGlobal
  \/ OpGetLocal \/ OpSetLocal \/ OpJumpIfFalse \/ OpJump \/ OpLoop \/ OpCall
  \/ OpClass \/ OpGetProperty \/ OpSetProperty \/ OpClosure \/ OpGetUpvalue
  \/ OpSetUpvalue \/ OpCloseUpvalue \/ StackOverflow

Next ==
  \/ \E prog \in Programs : Interpret(prog)
  \/ \E prog \in Programs : Rejected(prog)
  \/ \E text \in Texts : ScanAborts(text)
  \/ Step

Spec == Init /\ [][Next]_vars

\* run is one loop that executes instruction after instruction until it
\* returns: a step that can be taken is taken
FairSpec == Spec /\ WF_vars(Step)

\* ------------------------------------------------------------------------
\* Tree-walking interpreter (src/src/interpreter.rs, callable.rs,
\* resolver.rs, stmt.rs)
\* ------------------------------------------------------------------------

\* enum Expr: the forms the programs below use. depth is the entry the
\* resolver's table has for the node's id, -1 when it has none
Literal(value) == [expr |-> "Literal", value |-> value]
Variable(name) == [expr |-> "Variable", name |-> name, depth |-> -1]
This == [expr |-> "This", depth |-> -1]
Get(object, name) == [expr |-> "Get", object |-> object, name |-> name]
Set(object, name, value) ==
  [expr |-> "Set", object |-> object, name |-> name, value |-> value]
Call(callee, arguments) ==
  [expr |-> "Call", callee |-> callee, arguments |-> arguments]

\* enum Stmt
ClassStmt(name, methods) == [stmt |-> "Class", name |-> name, methods |-> methods]
FunctionStmt(name, params, body) ==
  [stmt |-> "Function", name |-> name, params |-> params, body |-> body]
VarStmt(name, initializer) ==
  [stmt |-> "Var", name |-> name, initializer |-> initializer]
ExpressionStmt(e) == [stmt |-> "Expression", expression |-> e]
PrintStmt(e) == [stmt |-> "Print", expression |-> e]

\* resolver.rs: scopes is the list of scopes, innermost first, each the set
\* of the names declared in it
resolver_begin_scope(scopes) == <<{}>> \o scopes

declare(var, scopes) ==
  IF scopes = <<>> THEN scopes
  ELSE <<Head(scopes) \cup {var}>> \o Tail(scopes)

RECURSIVE scope_distance(_, _, _)
scope_distance(var, scopes, i) ==
  IF scopes = <<>> THEN -1
  ELSE IF var \in Head(scopes) THEN i
  ELSE scope_distance(var, Tail(scopes), i + 1)

\* resolve_local: the number of scopes between the use and the declaration,
\* no table entry (-1) when no scope declares the name
resolver_resolve_local(var, scopes) == scope_distance(var, scopes, 0)

RECURSIVE resolve_expr(_, _)
RECURSIVE resolve_exprs(_, _)
resolve_expr(e, scopes) ==
  CASE e.expr = "Literal" -> e
    [] e.expr = "Variable" ->
         [e EXCEPT !.depth = resolver_resolve_local(e.name, scopes)]
    [] e.expr = "This" ->
         [e EXCEPT !.depth = resolver_resolve_local("this", scopes)]
    [] e.expr = "Get" -> [e EXCEPT !.object = resolve_expr(e.object, scopes)]
    [] e.expr = "Set" ->
         [e EXCEPT !.value = resolve_expr(e.value, scopes),
                   !.object = resolve_expr(e.object, scopes)]
    [] e.expr = "Call" ->
         [e EXCEPT !.callee = resolve_expr(e.callee, scopes),
                   !.arguments = resolve_exprs(e.arguments, scopes)]

resolve_exprs(es, scopes) ==
  IF es = <<>> THEN <<>>
  ELSE <<resolve_expr(Head(es), scopes)>> \o resolve_exprs(Tail(es), scopes)

RECURSIVE declare_all(_, _)
declare_all(names, scopes) ==
  IF names = <<>> THEN scopes
  ELSE declare_all(Tail(names), declare(Head(names), scopes))

\* resolve_stmt and resolve: the statement with its table entries filled in,
\* and the scopes after it
RECURSIVE resolve_stmt(_, _)
RECURSIVE resolve(_, _)
RECURSIVE resolve_methods(_, _)

\* resolve_function: a scope for the parameters around the body
resolve_function(f, scopes) ==
  [f EXCEPT !.body =
     resolve(f.body, declare_all(f.params, resolver_begin_scope(scopes))).stmts]

resolve_methods(methods, scopes) ==
  IF methods = <<>> THEN <<>>
  ELSE <<resolve_function(Head(methods), scopes)>>
         \o resolve_methods(Tail(methods), scopes)

resolve_stmt(s, scopes) ==
  CASE s.stmt = "Class" ->
         LET declared == declare(s.name, scopes)
             inner == declare("this", resolver_begin_scope(declared))
         IN [stmt |-> [s EXCEPT !.methods = resolve_methods(s.methods, inner)],
             scopes |-> declared]
    [] s.stmt = "Function" ->
         LET declared == declare(s.name, scopes)
         IN [stmt |-> resolve_function(s, declared), scopes |-> declared]
    [] s.stmt = "Var" ->
         LET declared == declare(s.name, scopes)
         IN [stmt |-> [s EXCEPT !.initializer = resolve_expr(s.initializer, declared)],
             scopes |-> declared]
    [] s.stmt = "Expression" ->
         [stmt |-> [s EXCEPT !.expression = resolve_expr(s.expression, scopes)],
          scopes |-> scopes]
    [] s.stmt = "Print" ->
         [stmt |-> [s EXCEPT !.expression = resolve_expr(s.expression, scopes)],
          scopes |-> scopes]

resolve(statements, scopes) ==
  IF statements = <<>> THEN [stmts |-> <<>>, scopes |-> scopes]
  ELSE LET first == resolve_stmt(Head(statements), scopes)
           rest == resolve(Tail(statements), first.scopes)
       IN [stmts |-> <<first.stmt>> \o rest.stmts, scopes |-> rest.scopes]

\* Option::None, the outcome of an evaluation that failed
NoValue == [t |-> "NoValue"]

\* struct LoxFunction: closure is the environment the Rc points to
LoxFunction(name, params, body, closure) ==
  [t |-> "LoxFunction", name |-> name, params |-> params, body |-> body,
   closure |-> closure]

\* struct LoxClass (the programs below declare no superclass)
LoxClass(name, methods) == [t |-> "LoxClass", name |-> name, methods |-> methods]

\* struct LoxInstance and the Rc that points to the i-th of them
LoxInstance(klass) == [klass |-> klass, fields |-> EmptyMap]

InstanceRef(i) == [t |-> "LoxInstance", ref |-> i]

\* Environment::new and Environment::from
Environment_new == [values |-> EmptyMap, enclosing |-> 0]

Environment_from(env) == [values |-> EmptyMap, enclosing |-> env]

\* env.borrow_mut().define(key, value)
Environment_define(envs, env, key, value) ==
  [envs EXCEPT ![env].values = MapInsert(@, key, value)]

Environment_is_defined(envs, env, key) == key \in DOMAIN envs[env].values

\* Environment::get: depth steps up the chain of enclosing environments
RECURSIVE Environment_get(_, _, _, _)
Environment_get(envs, env, key, depth) ==
  IF depth = 0
  THEN IF key \in DOMAIN envs[env].values THEN envs[env].values[key] ELSE NoValue
  ELSE IF envs[env].enclosing = 0 THEN NoValue
  ELSE Environment_get(envs, envs[env].enclosing, key, depth - 1)

\* LoxFunction::bind: new_env is a clone of the Rc, the same environment as
\* the method's closure, and "this" is defined in it
LoxFunction_bind(method, instance, envs) ==
  [val |-> LoxFunction(method.name, method.params, method.body, method.closure),
   envs |-> Environment_define(envs, method.closure, "this", instance)]

\* LoxClass::find_method
LoxClass_find_method(klass, method) ==
  IF method \in DOMAIN klass.methods THEN klass.methods[method] ELSE NoValue

\* rc_to_string: f64, String and bool by value, anything else by {:?}
rc_to_string(v) ==
  CASE v.t = "String" -> v.s
    [] v.t = "Bool" -> IF v.b THEN "true" ELSE "false"
    [] OTHER -> "Any { .. }"

\* The heap an evaluation works on
Heap(envs, insts, out) ==
  [environments |-> envs, lox_instances |-> insts, printed |-> out]

\* evaluate, LoxFunction::call and execute call one another; each gives its
\* outcome together with the heap it leaves
RECURSIVE evaluate(_, _, _)
RECURSIVE evaluate_arguments(_, _, _, _)
RECURSIVE LoxFunction_call(_, _, _)
RECURSIVE call_body(_, _, _)
RECURSIVE execute(_, _, _)

\* the loop of Expr::Call over the arguments
evaluate_arguments(arguments, env, h, args) ==
  IF arguments = <<>> THEN [ok |-> TRUE, args |-> args, h |-> h]
  ELSE LET r == evaluate(Head(arguments), env, h)
       IN IF r.val = NoValue THEN [ok |-> FALSE, args |-> args, h |-> r.h]
          ELSE evaluate_arguments(Tail(arguments), env, r.h, Append(args, r.val))

RECURSIVE define_params(_, _, _, _)
define_params(envs, env, params, args) ==
  IF params = <<>> THEN envs
  ELSE define_params(Environment_define(envs, env, Head(params), Head(args)),
                     env, Tail(params), Tail(args))

\* the loop of LoxFunction::call over the body
call_body(body, env, h) ==
  IF body = <<>> THEN [val |-> Bool(TRUE), h |-> h]
  ELSE LET r == execute(Head(body), env, h)
       IN IF r.ok THEN call_body(Tail(body), env, r.h)
          ELSE [val |-> NoValue, h |-> r.h]

LoxFunction_call(f, args, h) ==
  IF Len(f.params) # Len(args) THEN [val |-> NoValue, h |-> h]
  ELSE LET env == Len(h.environments) + 1
           envs == Append(h.environments, Environment_from(f.closure))
       IN call_body(f.body, env,
                    [h EXCEPT !.environments = define_params(envs, env, f.params, args)])

\* Expr::Get on an instance: a field, else the method bound to the instance
GetProperty(ob, name, h) ==
  LET inst == h.lox_instances[ob.ref]
      method == LoxClass_find_method(inst.klass, name)
  IN IF name \in DOMAIN inst.fields THEN [val |-> inst.fields[name], h |-> h]
     ELSE IF method = NoValue THEN [val |-> NoValue, h |-> h]
     ELSE LET bound == LoxFunction_bind(method, ob, h.environments)
          IN [val |-> bound.val, h |-> [h EXCEPT !.environments = bound.envs]]

evaluate(e, env, h) ==
  CASE e.expr = "Literal" -> [val |-> e.value, h |-> h]
    [] e.expr = "Variable" ->
         [val |-> IF e.depth < 0 THEN NoValue
                  ELSE Environment_get(h.environments, env, e.name, e.depth),
          h |-> h]
    [] e.expr = "This" ->
         [val |-> IF e.depth < 0 THEN NoValue
                  ELSE Environment_get(h.environments, env, "this", e.depth),
          h |-> h]
    [] e.expr = "Get" ->
         LET ob == evaluate(e.object, env, h)
         IN IF ob.val.t = "LoxInstance" THEN GetProperty(ob.val, e.name, ob.h)
            ELSE [val |-> NoValue, h |-> ob.h]
    [] e.expr = "Set" ->
         LET ob == evaluate(e.object, env, h)
         IN IF ob.val.t = "LoxInstance"
            THEN LET v == evaluate(e.value, env, ob.h)
                 IN IF v.val = NoValue THEN v
                    ELSE [val |-> v.val,
                          h |-> [v.h EXCEPT !.lox_instances[ob.val.ref].fields =
                                              MapInsert(@, e.name, v.val)]]
            ELSE [val |-> NoValue, h |-> ob.h]
    [] e.expr = "Call" ->
         LET callee == evaluate(e.callee, env, h)
         IN IF callee.val = NoValue THEN callee
            ELSE LET r == evaluate_arguments(e.arguments, env, callee.h, <<>>)
                 IN IF ~r.ok THEN [val |-> NoValue, h |-> r.h]
                    ELSE IF callee.val.t = "LoxFunction"
                    THEN LoxFunction_call(callee.val, r.args, r.h)
                    ELSE IF callee.val.t = "LoxClass"
                    THEN [val |-> InstanceRef(Len(r.h.lox_instances) + 1),
                          h |-> [r.h EXCEPT !.lox_instances =
                                              Append(@, LoxInstance(callee.val))]]
                    ELSE [val |-> NoValue, h |-> r.h]

\* the methods of a class statement, each closing over local_env
RECURSIVE class_methods(_, _)
class_methods(methods, local_env) ==
  IF methods = <<>> THEN EmptyMap
  ELSE LET m == Head(methods)
       IN MapInsert(class_methods(Tail(methods), local_env), m.name,
                    LoxFunction(m.name, m.params, m.body, local_env))

execute(s, env, h) ==
  CASE s.stmt = "Class" ->
         LET local_env == Len(h.environments) + 1
             envs == Append(h.environments, Environment_from(env))
             klass == LoxClass(s.name, class_methods(s.methods, local_env))
         IN [ok |-> TRUE,
             h |-> [h EXCEPT !.environments =
                               Environment_define(envs, env, s.name, klass)]]
    [] s.stmt = "Function" ->
         [ok |-> TRUE,
          h |-> [h EXCEPT !.environments =
                            Environment_define(@, env, s.name,
                              LoxFunction(s.name, s.params, s.body, env))]]
    [] s.stmt = "Var" ->
         IF Environment_is_defined(h.environments, env, s.name)
         THEN [ok |-> FALSE, h |-> h]
         ELSE LET r == evaluate(s.initializer, env, h)
              IN IF r.val = NoValue THEN [ok |-> FALSE, h |-> r.h]
                 ELSE [ok |-> TRUE,
                       h |-> [r.h EXCEPT !.environments =
                                Environment_define(@, env, s.name, r.val)]]
    [] s.stmt = "Expression" ->
         LET r == evaluate(s.expression, env, h)
         IN [ok |-> r.val # NoValue, h |-> r.h]
    [] s.stmt = "Print" ->
         LET r == evaluate(s.expression, env, h)
         IN IF r.val = NoValue THEN [ok |-> FALSE, h |-> r.h]
            ELSE [ok |-> TRUE,
                  h |-> [r.h EXCEPT !.printed = Append(@, rc_to_string(r.val))]]

\* The programs given to the tree-walking interpreter, as the statements the
\* parser builds:
\*   class C { m() { print this.name; } }
\*   var a = C(); a.name = "a";
\*   var b = C(); b.name = "b";
\* followed by up to MaxTail of the statements of TailStmts
ClassC ==
  ClassStmt("C", <<FunctionStmt("m", <<>>, <<PrintStmt(Get(This, "name"))>>)>>)

InstanceNamed(var, text) ==
  <<VarStmt(var, Call(Variable("C"), <<>>)),
    ExpressionStmt(Set(Variable(var), "name", Literal(Str(text))))>>

Prelude == <<ClassC>> \o InstanceNamed("a", "a") \o InstanceNamed("b", "b")

\* var f = a.m;   var g = b.m;   f();   g();   a.m();   b.m();
VarF == VarStmt("f", Get(Variable("a"), "m"))
VarG == VarStmt("g", Get(Variable("b"), "m"))
CallF == ExpressionStmt(Call(Variable("f"), <<>>))
CallG == ExpressionStmt(Call(Variable("g"), <<>>))
CallAM == ExpressionStmt(Call(Get(Variable("a"), "m"), <<>>))
CallBM == ExpressionStmt(Call(Get(Variable("b"), "m"), <<>>))

TailStmts == {VarF, VarG, CallF, CallG, CallAM, CallBM}

MaxTail == 3

TreePrograms ==
  {Prelude \o tail : tail \in UNION {[1..n -> TailStmts] : n \in 1..MaxTail}}

\* run_file of main.rs: resolve the statements in one global scope, then
\* interpret them in a new global environment
RunFile(prog) ==
  /\ outcome = "idle"
  /\ stmts' = resolve(prog, <<{}>>).stmts
  /\ environments' = <<Environment_new>>
  /\ outcome' = "running"
  /\ UNCHANGED <<lox_instances, printed, vm_vars>>

\* interpret: execute the next statement; an Err ends the interpretation
InterpretStmt ==
  /\ outcome = "running"
  /\ stmts # <<>>
  /\ LET r == execute(Head(stmts), 1, Heap(environments, lox_instances, printed))
     IN /\ environments' = r.h.environments
        /\ lox_instances' = r.h.lox_instances
        /\ printed' = r.h.printed
        /\ stmts' = IF r.ok THEN Tail(stmts) ELSE <<>>
        /\ outcome' = IF r.ok THEN "running" ELSE "error"
  /\ UNCHANGED vm_vars

\* interpret returns Ok after the last statement
InterpretDone ==
  /\ outcome = "running"
  /\ stmts = <<>>
  /\ outcome' = "ok"
  /\ UNCHANGED <<environments, lox_instances, stmts, printed, vm_vars>>

TreeNext ==
  \/ \E prog \in TreePrograms : RunFile(prog)
  \/ InterpretStmt
  \/ InterpretDone

TreeSpec == Init /\ [][TreeNext]_vars

\* ------------------------------------------------------------------------

\* Properties
\* ------------------------------------------------------------------------

\* C1 -- Closing correctness: when a function executes RETURN, every upvalue
\* cell that captured a local of the returning frame becomes Closed with the
\* value that local's own stack slot held at the moment of the return.
ClosingCorrectness ==
  [][(Dispatch(OP_RETURN) /\ status' # "panic")
       => \A a \in DOMAIN captures :
            (a >= Cur.slot /\ a < Len(stack))
              => cells'[captures[a]] = UpOut(stack[a + 1])]_vars

\* C2 -- Upvalue identity: the captures map holds, for an address, the one
\* open cell of that address; OP_CLOSURE gives a closure that captures a
\* local the cell the map already holds for its address (so two closures
\* capturing the same local while it is live hold the same cell); a
\* SET_UPVALUE through an open cell writes the local's slot and a
\* GET_UPVALUE reads it.
UpvalueIdentity ==
  /\ [](\A a \in DOMAIN captures : cells[captures[a]] = UpStack(a))
  /\ [][(Dispatch(OP_CLOSURE) /\ Len(stack') = Len(stack) + 1)
         => LET clos == stack'[Len(stack')]
            IN \A k \in 0..(clos.function.upvalue - 1) :
                 Operand(2 + 2 * k) = 1
                   => LET a == Cur.slot + Operand(3 + 2 * k)
                          c == clos.upvalues[k + 1]
                      IN /\ a \in DOMAIN captures => c = captures[a]
                         /\ a \in DOMAIN captures'
                         /\ captures'[a] = c
                         /\ cells'[c] = UpStack(a)]_vars
  /\ [][(Dispatch(OP_SET_UPVALUE) /\ status' = "running")
         => LET c == Cur.closure.upvalues[Operand(1) + 1]
            IN IF cells[c].kind = "Stack"
               THEN /\ stack'[cells[c].location + 1] = peek(stack, 0)
                    /\ cells' = cells
               ELSE cells'[c] = UpOut(peek(stack, 0))]_vars
  /\ [][(Dispatch(OP_GET_UPVALUE) /\ status' = "running")
         => LET c == Cur.closure.upvalues[Operand(1) + 1]
            IN stack' = Append(stack, IF cells[c].kind = "Stack"
                                      THEN stack[cells[c].location + 1]
                                      ELSE cells[c].val)]_vars

\* inc and get of ProgCounter hold the same open cell, and the value inc
\* wrote through it is the one get printed
UpvalueIdentityWitness ==
  /\ src = ProgCounter
  /\ output = <<"2", "2">>
  /\ \E i, j \in 1..Len(stack) :
       /\ stack[i].t = "Closure" /\ stack[j].t = "Closure"
       /\ stack[i].function.name = "inc" /\ stack[j].function.name = "get"
       /\ Len(stack[i].upvalues) = 1
       /\ stack[i].upvalues = stack[j].upvalues
       /\ cells[stack[i].upvalues[1]].kind = "Stack"

\* C3 -- Stack balance: on a new VM, the stack height at the start of every
\* top-level statement of the script, and after the last one, is the height
\* before the first statement (only the script's closure is on the stack).
StackBalance ==
  (runs = 1 /\ Running /\ Len(frames) = 1
     /\ Cur.ip \in Cur.closure.function.marks)
    => Len(stack) = 1

\* C4 -- Locals occupy a contiguous prefix of their frame: when the code of
\* a declaration of a local with compile-time index i has run, the value it
\* leaves is the top of the stack and is stack[frame.slot + i], the slot
\* GET_LOCAL i and SET_LOCAL i address.
LocalsContiguous ==
  (runs = 1 /\ Running)
    => \A k \in 1..Len(CurChunk.defs) :
         Cur.ip = CurChunk.defs[k].off
           => Len(stack) = Cur.slot + CurChunk.defs[k].idx + 1

\* C5 -- CALL n on a closure: if n is the arity, one frame is pushed with
\* ip = 0 and slot the stack index of the callee (height - n - 1); otherwise
\* a runtime error is raised and no frame is pushed.
CallOnClosure ==
  [][(Dispatch(OP_CALL) /\ HasBytes(1) /\ Operand(1) < Len(stack)
        /\ peek(stack, Operand(1)).t = "Closure")
       => LET n == Operand(1)
              callee == peek(stack, n)
              top == frames'[Len(frames')]
          IN IF n = callee.function.arity
             THEN /\ Len(frames') = Len(frames) + 1
                  /\ SubSeq(frames', 1, Len(frames) - 1)
                       = SubSeq(frames, 1, Len(frames) - 1)
                  /\ frames'[Len(frames)].closure = Cur.closure
                  /\ top.closure = callee
                  /\ top.ip = 0
                  /\ top.slot = Len(stack) - n - 1
                  /\ stack[top.slot + 1] = callee
                  /\ stack' = stack
                  /\ status' = "running"
             ELSE /\ status' = "error"
                  /\ stack' = <<>>
                  /\ Len(frames') = Len(frames)]_vars

\* after a call with a wrong argument count failed, a call of a function of
\* two parameters has just pushed its frame
CallOnClosureWitness ==
  /\ error = "Expect arguments but got."
  /\ status = "running"
  /\ Len(frames) >= 2
  /\ Cur.ip = 0
  /\ Cur.closure.function.arity = 2
  /\ Cur.slot = Len(stack) - 3
  /\ stack[Cur.slot + 1] = Cur.closure

CallOnClass ==
  [][(Dispatch(OP_CALL) /\ HasBytes(1) /\ Operand(1) < Len(stack)
        /\ peek(stack, Operand(1)).t = "Class")
       => LET n == Operand(1)
              klass == peek(stack, n)
          IN /\ Len(stack') = Len(stack) - n
             /\ SubSeq(stack', 1, Len(stack) - n - 1)
                  = SubSeq(stack, 1, Len(stack) - n - 1)
             /\ stack'[Len(stack) - n].t = "Instance"
             /\ instances'[stack'[Len(stack) - n].ref]
                  = [klass |-> klass.name, fields |-> EmptyMap]]_vars

\* C8 -- EQUAL pops two values and pushes true exactly when both are Numbers
\* with the same numeric value, both are Bools with the same value, or both
\* are Strings with the same text, and false for every other pair.
EqualByValue ==
  [][(Dispatch(OP_EQUAL) /\ Len(stack) >= 2)
       => LET a == peek(stack, 0)
              b == peek(stack, 1)
              same == /\ a.t = b.t
                      /\ a.t \in {"Number", "Bool", "String"}
                      /\ a = b
          IN stack' = Append(PopN(stack, 2), Bool(same))]_vars

\* C9 -- Truthiness: JUMP_IF_FALSE jumps exactly when the top of the stack
\* is nil or false, NOT pushes true exactly for nil and false, and an
\* if/else statement runs its then-branch iff the condition is neither nil
\* nor false (so Number 0 and the empty String select the then-branch).
Truthiness ==
  /\ [][(Dispatch(OP_JUMP_IF_FALSE) /\ HasBytes(USIZE) /\ Len(stack) >= 1)
         => /\ stack' = stack
            /\ status' = "running"
            /\ frames'[Len(frames)].ip =
                 IF peek(stack, 0) \in {Nil, Bool(FALSE)}
                 THEN Cur.ip + 1 + USIZE + read_jump(CurChunk, Cur.ip + 1)
                 ELSE Cur.ip + 1 + USIZE]_vars
  /\ [][(Dispatch(OP_NOT) /\ Len(stack) >= 1)
         => stack' = Append(PopN(stack, 1),
                            Bool(peek(stack, 0) \in {Nil, Bool(FALSE)}))]_vars
  /\ [](\A c \in CondLexemes :
          (src = IfProg(c) /\ status = "ok")
            => output = IF c \in {"nil", "false"} THEN <<"E">> ELSE <<"T">>)
  /\ [](\A c \in CondLexemes :
          (src = NotProg(c) /\ status = "ok")
            => output = IF c \in {"nil", "false"}
                        THEN <<"true">> ELSE <<"false">>)

\* if (0) ... else ... has run its then-branch
TruthinessWitness ==
  /\ src = IfProg("0")
  /\ status = "ok"
  /\ output = <<"T">>

\* C10 -- Runtime-error unwinding: when execution ends with a runtime error,
\* interpret returns with the value stack empty and no call frame left
\* active.
ErrorUnwinds == status = "error" => (stack = <<>> /\ frames = <<>>)

\* C11 -- Stack overflow: no instruction is dispatched while the value stack
\* holds more than the limit; the step run takes in such a state ends the
\* execution with the runtime error "Stack overflow", so a program that
\* recurses without bound ends in that error rather than running forever.
StackOverflowStops ==
  /\ [][(Running /\ Len(stack) > StackLimit)
         => (status' = "error" /\ error' = "Stack overflow"
             /\ \A i \in 1..Len(frames) : frames'[i].ip = frames[i].ip)]_vars
  /\ [][(status = "running" /\ status' = "running" /\ frames' # frames)
         => Len(stack) <= StackLimit]_vars
  /\ \A prog \in {ProgRecurse, ProgRecurseArgs} :
       (src = prog /\ status = "running")
         ~> (src = prog /\ status = "error" /\ error = "Stack overflow")

StackOverflowStopsWitness ==
  /\ src = ProgRecurse
  /\ runs = 1
  /\ status = "error"
  /\ error = "Stack overflow"
  /\ Len(frames) > StackLimit - 1

\* the source texts made of expression statements only: all their constants
\* go to the one chunk of the script
FlatPrograms ==
  {prog \in Programs :
     \A i \in 1..Len(prog) :
       TokenOf(prog[i]).ttype \notin {"Fun", "Class", "Var", "LeftBrace", "Dot"}}

\* the distinct constants (numbers, strings, global names) of a source text
DistinctConstants(prog) ==
  {prog[i] : i \in {j \in 1..Len(prog) :
                      TokenOf(prog[j]).ttype \in {"Number", "String", "Identifier"}}}

\* C12 -- Constant-pool bounds: compiling a chunk that needs more distinct
\* constants than the pool has places fails with the compile error "Too many
\* constants", and every chunk that needs at most that many distinct
\* constants compiles without that error, however often each constant or
\* global name is used.
ConstantPoolBounds ==
  src \in FlatPrograms
    => /\ Cardinality(DistinctConstants(src)) > MaxConstants
            => (/\ status = "rejected"
                /\ \E i \in 1..Len(Reported[src]) :
                     Reported[src][i] = "Too many constants")
       /\ Cardinality(DistinctConstants(src)) <= MaxConstants
            => \A i \in 1..Len(Reported[src]) :
                 Reported[src][i] # "Too many constants"

\* the chunk of a function and the chunks of the functions among its
\* constants, at any depth
RECURSIVE ChunksOf(_)
ChunksOf(func) ==
  {func.chunk} \cup
  UNION {ChunksOf(func.chunk.constants[i].f) :
           i \in {j \in 1..Len(func.chunk.constants) :
                    func.chunk.constants[j].t = "Function"}}

\* the target of the jump instruction at offset: the position after the
\* operand plus the operand, minus it for LOOP
JumpTarget(chunk, offset) ==
  IF chunk.code[offset + 1] = OP_LOOP
  THEN offset + 1 + USIZE - read_jump(chunk, offset + 1)
  ELSE offset + 1 + USIZE + read_jump(chunk, offset + 1)

JumpsAligned(chunk) ==
  \A offset \in disassemble_chunk(chunk, 0) :
    chunk.code[offset + 1] \in {OP_JUMP, OP_JUMP_IF_FALSE, OP_LOOP}
      => /\ offset + USIZE < Len(chunk.code)
         /\ JumpTarget(chunk, offset) >= 0
         /\ JumpTarget(chunk, offset) < Len(chunk.code)
         /\ JumpTarget(chunk, offset) \in disassemble_chunk(chunk, 0)
         /\ \E i \in 1..USIZE : chunk.code[offset + 1 + i] # 255

\* C13 -- Jump alignment: in every chunk the compiler produces, each JUMP,
\* JUMP_IF_FALSE and LOOP has an operand such that the position after the
\* operand plus the offset (minus it for LOOP) is in [0, chunk length) and is
\* the first byte of an instruction, and no placeholder operand is left
\* unpatched; a jump the VM takes therefore moves the ip to the first byte
\* of an instruction of the chunk.
JumpAlignment ==
  /\ [](status \in {"running", "ok", "error"}
         => \A chunk \in ChunksOf(Compiled[src]) : JumpsAligned(chunk))
  /\ [][((Dispatch(OP_JUMP) \/ Dispatch(OP_JUMP_IF_FALSE) \/ Dispatch(OP_LOOP))
          /\ status' = "running")
         => /\ frames'[Len(frames)].ip \in disassemble_chunk(CurChunk, 0)
            /\ frames'[Len(frames)].ip \in
                 {Cur.ip + 1 + USIZE, JumpTarget(CurChunk, Cur.ip)}]_vars

\* a loop has jumped back and the exit jump is about to be taken
JumpAlignmentWitness ==
  /\ src = ProgWhile
  /\ runs = 1
  /\ Dispatch(OP_JUMP_IF_FALSE)
  /\ is_false_jump(peek(stack, 0))
  /\ globals["x"] = Number(2)

\* C14 -- If any parse error is reported while compiling a source text,
\* compile returns no function, whatever valid declarations precede or follow
\* the error; compile returns a function only when no error was reported.
ErrorMeansNoFunction ==
  src \in Programs
    => /\ Reported[src] # <<>> => status = "rejected"
       /\ status # "rejected" => Reported[src] = <<>>

ErrorMeansNoFunctionWitness ==
  /\ src = ProgErrorMiddle
  /\ status = "rejected"
  /\ Len(Reported[src]) = 1

\* C15 -- A scan error is fatal to compilation: if the source text contains
\* a character that starts no token, an error is reported and compile
\* returns no function, whichever token precedes the character.
InvalidCharIsFatal ==
  (src \in Programs /\ \E i \in 1..Len(src) : src[i] \in InvalidChars)
    => (status = "rejected" /\ Reported[src] # <<>>)

\* the global name that the instruction at the ip of the current frame names
GlobalOperand == Constant(Operand(1)).s

\* C16 -- SET_GLOBAL naming a global that was never defined raises a runtime
\* error and leaves the globals table exactly as it was (the name is still
\* undefined afterwards); GET_GLOBAL of an undefined name likewise raises a
\* runtime error and pushes nothing.
UndefinedGlobalIsError ==
  /\ [][(Dispatch(OP_SET_GLOBAL) /\ status' # "panic"
          /\ GlobalOperand \notin DOMAIN globals)
         => /\ status' = "error"
            /\ error' = "is not defined before assignment."
            /\ globals' = globals
            /\ GlobalOperand \notin DOMAIN globals']_vars
  /\ [][(Dispatch(OP_GET_GLOBAL) /\ GlobalOperand \notin DOMAIN globals)
         => /\ status' = "error"
            /\ error' = "Variable is not defined."
            /\ globals' = globals
            /\ stack' = <<>>]_vars
  /\ [][(Dispatch(OP_SET_GLOBAL) /\ status' = "running")
         => (/\ GlobalOperand \in DOMAIN globals
             /\ DOMAIN globals' = DOMAIN globals)]_vars
  /\ [][(Dispatch(OP_GET_GLOBAL) /\ status' = "running")
         => (/\ GlobalOperand \in DOMAIN globals
             /\ stack' = Append(stack, globals[GlobalOperand]))]_vars

\* the assignment of the undefined x has failed, and so has the later read
\* of x by a second source text
UndefinedGlobalIsErrorWitness ==
  /\ runs = 2
  /\ src = ProgUndefined
  /\ status = "error"
  /\ error = "Variable is not defined."
  /\ DOMAIN globals = {"e"}

\* the identifier use u of chunk is compiled as the spec's three-level
\* search says
ResolvedInOrder(chunk, u) ==
  LET op == chunk.code[u.off + 1]
  IN /\ op \in {OP_GET_LOCAL, OP_SET_LOCAL, OP_GET_UPVALUE, OP_SET_UPVALUE,
                 OP_GET_GLOBAL, OP_SET_GLOBAL}
     /\ op \in {OP_GET_LOCAL, OP_SET_LOCAL} <=> u.name \in u.own
     /\ op \in {OP_GET_UPVALUE, OP_SET_UPVALUE}
          <=> (u.name \notin u.own /\ u.name \in u.outer)
     /\ op \in {OP_GET_GLOBAL, OP_SET_GLOBAL}
          => chunk.constants[chunk.code[u.off + 2] + 1] = Str(u.name)

\* C17 -- Variable resolution order: for each identifier use the compiler
\* emits GET/SET_LOCAL iff the name is a declared local (parameter or block
\* variable) of the function being compiled, otherwise GET/SET_UPVALUE iff it
\* is a declared local of some enclosing function, and otherwise
\* GET/SET_GLOBAL with the name as constant; in particular a name declared
\* only at global level is always compiled as a global access.
ResolutionOrder ==
  status \in {"running", "ok", "error"}
    => \A chunk \in ChunksOf(Compiled[src]) :
         \A k \in 1..Len(chunk.uses) : ResolvedInOrder(chunk, chunk.uses[k])

\* the source texts of ScopePrograms that declare a name twice in one scope
\* (same function, same block depth)
SameScopeTwice ==
  {ShadowProg(x, x, FALSE) : x \in ScopeNames}
  \cup {ParamProg(x, x) : x \in ScopeNames}
  \cup {ParamsProg(x, x) : x \in ScopeNames}
  \cup {AfterBlockProg(x, x) : x \in ScopeNames}

\* C18 -- Declaring a local whose name equals that of another local declared
\* in the same scope (same function, same block depth) is a compile error,
\* while declaring it in a nested scope is accepted and shadows the outer
\* variable until the inner scope ends.
SameScopeRedeclaration ==
  /\ src \in SameScopeTwice
       => (/\ status = "rejected"
           /\ Reported[src][1] = "A variable with same name defined in this scope")
  /\ src \in ScopePrograms \ SameScopeTwice
       => (/\ status \in {"running", "ok"}
           /\ Reported[src] = <<>>
           /\ status = "ok" => output = <<"2", "1">>)

\* the inner a was printed, then the outer one
SameScopeRedeclarationWitness ==
  /\ src = ShadowProg("a", "a", TRUE)
  /\ status = "ok"
  /\ output = <<"2", "1">>

\* the source texts of InitPrograms that use a local in its own initializer
OwnInitializer == {InitProg(x, y, y) : x \in ScopeNames, y \in ScopeNames}

\* C19 -- A local variable is unreadable inside its own initializer: between
\* its declaration and the end of its initializer expression the local has
\* depth -1, and any use of its name in that interval is a compile error;
\* once the initializer is compiled its depth equals the current scope
\* depth.
OwnInitializerUnreadable ==
  /\ src \in OwnInitializer
       => (/\ status = "rejected"
           /\ Reported[src][1] = "Can't read local variable in its own identifier")
  /\ src \in InitPrograms \ OwnInitializer
       => (/\ status # "rejected"
           /\ Reported[src] = <<>>
           /\ \A x \in ScopeNames, y \in ScopeNames, z \in ScopeNames :
                (z # y /\ src = InitProg(x, y, z))
                  => LET uses == Compiled[src].chunk.uses
                     IN /\ Len(uses) = 2
                        /\ uses[1].name = z /\ uses[1].pending = {y}
                        /\ uses[2].name = y /\ uses[2].pending = {})
  /\ status \in {"running", "ok", "error"}
       => \A chunk \in ChunksOf(Compiled[src]) :
            /\ \A k \in 1..Len(chunk.uses) :
                 chunk.uses[k].name \notin chunk.uses[k].pending
            /\ \A k \in 1..Len(chunk.defs) :
                 /\ chunk.defs[k].depth = chunk.defs[k].scope_depth
                 /\ chunk.defs[k].depth > 0

\* the initializer of the inner variable read the outer one
OwnInitializerUnreadableWitness ==
  /\ src = InitProg("a", "b", "a")
  /\ status = "ok"
  /\ output = <<"1">>

\* the instances that the values of stk refer to
InstancesHeld(stk) ==
  {stk[i].ref : i \in {j \in 1..Len(stk) : stk[j].t = "Instance"}}

\* C20 -- Instances are shared by reference: SET_PROPERTY stores the field in
\* the one instance the value refers to and changes no other instance, and
\* GET_PROPERTY through any value referring to that instance returns the
\* stored value; a class call gives an instance that no value referred to
\* before, so instances produced by separate class calls never see each
\* other's fields; reading a field never assigned on that instance is a
\* runtime error.
InstancesShared ==
  /\ [][(Dispatch(OP_SET_PROPERTY) /\ status' = "running")
         => LET ref == peek(stack, 1).ref
                name == Constant(Operand(1)).s
            IN /\ Len(instances') = Len(instances)
               /\ name \in DOMAIN instances'[ref].fields
               /\ instances'[ref].fields[name] = peek(stack, 0)
               /\ \A f \in DOMAIN instances[ref].fields \ {name} :
                    instances'[ref].fields[f] = instances[ref].fields[f]
               /\ \A r \in 1..Len(instances) :
                    r # ref => instances'[r] = instances[r]]_vars
  /\ [][(Dispatch(OP_GET_PROPERTY) /\ Len(stack) > 0
          /\ peek(stack, 0).t = "Instance")
         => LET ref == peek(stack, 0).ref
                name == Constant(Operand(1)).s
            IN IF name \in DOMAIN instances[ref].fields
               THEN /\ status' = "running"
                    /\ stack' = Append(PopN(stack, 1), instances[ref].fields[name])
               ELSE /\ status' = "error"
                    /\ error' = "Property is not defined."]_vars
  /\ [][Len(instances') > Len(instances)
         => /\ Dispatch(OP_CALL)
            /\ Len(instances') = Len(instances) + 1
            /\ InstancesHeld(stack') \ InstancesHeld(stack) = {Len(instances')}
            /\ DOMAIN instances'[Len(instances')].fields = {}
            /\ \A r \in 1..Len(instances) : instances'[r] = instances[r]]_vars
  /\ []((src = ProgShare /\ runs = 1)
         => /\ status \in {"running", "error"}
            /\ Len(output) >= 1 => output = <<"1">>
            /\ ("p" \in DOMAIN globals /\ "q" \in DOMAIN globals)
                 => globals["q"] = globals["p"]
            /\ ("p" \in DOMAIN globals /\ "r" \in DOMAIN globals)
                 => globals["r"].ref # globals["p"].ref
            /\ status = "error"
                 => (output = <<"1">> /\ error = "Property is not defined."))

\* the field written through p was read through q, and the read of the
\* same field of the other instance, where it was never assigned, failed
InstancesSharedWitness ==
  /\ src = ProgShare
  /\ runs = 1
  /\ status = "error"
  /\ error = "Property is not defined."
  /\ output = <<"1">>
  /\ instances[globals["q"].ref].fields["a"] = Number(1)
  /\ DOMAIN instances[globals["r"].ref].fields = {}

\* C21 -- Chunk.read_constant(idx) returns the idx-th value of the constant
\* pool exactly when idx is less than the number of constants in the pool and
\* returns the "Index out of Constant" error, without faulting, for every
\* other idx.  Stated for the chunk of the running frame and every idx up to
\* its code length.  (The bound of read(pos), the code length, is HasBytes.)
ReadConstantContract ==
  Running =>
    \A idx \in 0..Len(Code) :
      ConstantStatus(idx) =
        IF idx < Len(CurChunk.constants) THEN "ok" ELSE "err"

\* the Lox display form of a value: nil, true / false, the string without
\* quotes, <fn f> for a function or closure named f, the name of a class,
\* <C instance> for an instance of class C
LoxDisplay(v, insts) ==
  CASE v.t = "String" -> v.s
    [] v.t = "Number" -> NumberString(v)
    [] v.t = "Bool" -> IF v.b THEN "true" ELSE "false"
    [] v.t = "Function" -> "<fn " \o v.f.name \o ">"
    [] v.t = "Closure" -> "<fn " \o v.function.name \o ">"
    [] v.t = "Class" -> v.name
    [] v.t = "Instance" -> "<" \o insts[v.ref].klass \o " instance>"
    [] v.t = "None" -> "nil"

\* C22 -- PRINT writes the Lox display form of the popped value: nil prints
\* as nil, booleans as true / false, strings without quotes, a function or
\* closure named f as <fn f>, a class as its name, and an instance of class C
\* as <C instance>.
PrintDisplayForm ==
  [][(Dispatch(OP_PRINT) /\ Len(stack) > 0)
       => output' = Append(output, LoxDisplay(peek(stack, 0), instances))]_vars

\* the opcodes compiled from - * / > <
NumberOps == {OP_SUBTRACT, OP_MULTIPLY, OP_DIVIDE, OP_GREATER, OP_LESS}

\* C23 -- SUBTRACT, MULTIPLY, DIVIDE, GREATER and LESS raise a runtime error
\* unless both operands are Numbers, and DIVIDE with a divisor equal to zero
\* raises a runtime error instead of pushing a result.
ArithmeticChecks ==
  [][\A op \in NumberOps :
       (Dispatch(op) /\ Len(stack) >= 2)
         => IF \/ peek(stack, 0).t # "Number"
               \/ peek(stack, 1).t # "Number"
               \/ (op = OP_DIVIDE /\ peek(stack, 0) = Number(0))
            THEN status' = "error" /\ stack' = <<>>
            ELSE status' = "running" /\ Len(stack') = Len(stack) - 1]_vars

\* the opcodes that store into a variable or a property
SetOps == {OP_SET_GLOBAL, OP_SET_LOCAL, OP_SET_UPVALUE, OP_SET_PROPERTY}

\* the chunk the parser has written when parse ends, for the source texts of
\* AssignPrograms
Emitted == [prog \in AssignPrograms |-> parse_all(NewParser(prog)).chunk]

EmitsSet(chunk) ==
  \E offset \in disassemble_chunk(chunk, 0) : chunk.code[offset + 1] \in SetOps

\* C24 -- Assignment to a non-lvalue is a compile error: when = follows an
\* expression that is not a plain variable or a property access, an "Invalid
\* assignment" error is reported, no SET instruction is emitted for it, and
\* compile returns no function.
InvalidAssignment ==
  \A lhs \in NonLvalues :
    src = AssignProg(lhs)
      => /\ status = "rejected"
         /\ Reported[src] = <<"Invalid assignment statement.">>
         /\ ~EmitsSet(Emitted[src])

\* the instructions of a binary operator, and of a prefix operator
BinaryCode(op) ==
  CASE op = "+" -> <<OP_ADD>>
    [] op = "-" -> <<OP_SUBTRACT>>
    [] op = "*" -> <<OP_MULTIPLY>>
    [] op = "/" -> <<OP_DIVIDE>>
    [] op = "==" -> <<OP_EQUAL>>
    [] op = "!=" -> <<OP_EQUAL, OP_NOT>>
    [] op = ">" -> <<OP_GREATER>>
    [] op = ">=" -> <<OP_LESS, OP_NOT>>
    [] op = "<" -> <<OP_LESS>>
    [] op = "<=" -> <<OP_GREATER, OP_NOT>>

UnaryCode(u) == IF u = "-" THEN <<OP_NEGATE>> ELSE <<OP_NOT>>

\* C25 -- Unary operators bind tighter than every binary operator: for a
\* prefix - or ! followed by operand x, a binary operator and operand y, the
\* emitted code applies NEGATE / NOT to x alone and then the binary operator
\* to that result and y.
UnaryBindsTighter ==
  \A u \in UnaryLexemes, op \in BinaryLexemes :
    src = UnaryProg(u, op)
      => /\ status # "rejected"
         /\ Compiled[src].chunk.code =
              <<OP_CONSTANT, 0>> \o UnaryCode(u) \o <<OP_CONSTANT, 1>>
                \o BinaryCode(op) \o <<OP_PRINT, OP_NIL, OP_RETURN>>

\* the number of leaves of the expression t
RECURSIVE Leaves(_)
Leaves(t) == IF IsLeaf(t) THEN 1 ELSE Leaves(t.l) + Leaves(t.r)

\* The code that evaluates the expression t: the left operand, the right
\* operand, the operator; first is the pool position of its first number
RECURSIVE Postfix(_, _)
Postfix(t, first) ==
  IF IsLeaf(t) THEN <<OP_CONSTANT, first>>
  ELSE Postfix(t.l, first) \o Postfix(t.r, first + Leaves(t.l))
         \o BinaryCode(t.op)

ArithmeticOps == {"+", "-", "*", "/"}

RECURSIVE IsArithmetic(_)
IsArithmetic(t) ==
  IsLeaf(t) \/ (t.op \in ArithmeticOps /\ IsArithmetic(t.l) /\ IsArithmetic(t.r))

\* the value of an arithmetic expression, its left operand the first argument
RECURSIVE Eval(_)
Eval(t) ==
  IF IsLeaf(t) THEN Number(NumberLexemes[t.lex])
  ELSE LET l == Eval(t.l).n
           r == Eval(t.r).n
       IN CASE t.op = "+" -> Number(l + r)
            [] t.op = "-" -> Number(l - r)
            [] t.op = "*" -> Number(l * r)
            [] t.op = "/" -> Quotient(l, r)

\* C26 -- Binary operator precedence and associativity: for an expression
\* built from numbers, parentheses and binary operators, the emitted code
\* evaluates * / before + - before comparisons before equality, groups
\* operators of equal precedence left to right, and for each operator uses the
\* left operand as first argument: the code is that of the expression's tree,
\* and an arithmetic expression prints the value of its tree (1 + 2 * 3
\* yields 7).
BinaryPrecedence ==
  \A t \in Trees :
    src = ExprProg(t)
      => /\ status # "rejected"
         /\ Compiled[src].chunk.code =
              Postfix(t, 0) \o <<OP_PRINT, OP_NIL, OP_RETURN>>
         /\ (IsArithmetic(t) /\ status = "ok") => output = <<NumberString(Eval(t))>>
         /\ IsArithmetic(t) => status \in {"running", "ok"}

\* 8 - 4 * 2 was compiled to 8, 4, 2, MULTIPLY, SUBTRACT and printed 0
BinaryPrecedenceWitness ==
  /\ src = ExprProg(RightTree("-", "*"))
  /\ src = <<"print", "8", "-", "4", "*", "2", ";">>
  /\ status = "ok"
  /\ output = <<"0">>

\* the upvalue table that follows the OP_CLOSURE instruction at offset
UpvalueTable(chunk, offset) ==
  [i \in 1..chunk.constants[chunk.code[offset + 2] + 1].f.upvalue |->
     [is_local |-> chunk.code[offset + 1 + 2 * i] = 1,
      index |-> chunk.code[offset + 2 + 2 * i]]]

NoDuplicates(table) ==
  \A i \in 1..Len(table), j \in 1..Len(table) : i # j => table[i] # table[j]

\* Entry b of the table of the n-th function of tables, the tables of the
\* functions around a use, outermost first, followed outwards: the number of
\* function levels to the function whose local it names, and the local's slot
RECURSIVE Chain(_, _, _)
Chain(tables, n, b) ==
  IF n < 1 \/ b + 1 > Len(tables[n]) THEN [hops |-> 0 - 1, slot |-> 0 - 1]
  ELSE IF tables[n][b + 1].is_local
  THEN [hops |-> 1, slot |-> tables[n][b + 1].index]
  ELSE LET c == Chain(tables, n - 1, tables[n][b + 1].index)
       IN IF c.hops = 0 - 1 THEN c ELSE [hops |-> c.hops + 1, slot |-> c.slot]

\* the uses of chunk that were compiled to GET_UPVALUE or SET_UPVALUE
UpvalueUses(chunk) ==
  {i \in 1..Len(chunk.uses) :
     chunk.code[chunk.uses[i].off + 1] \in {OP_GET_UPVALUE, OP_SET_UPVALUE}}

UpvalueOperand(chunk, i) == chunk.code[chunk.uses[i].off + 2]

\* func and the functions declared in it, tables being the upvalue tables of
\* the functions around func's code, func's own last
RECURSIVE UpvaluesThreaded(_, _)
UpvaluesThreaded(func, tables) ==
  LET chunk == func.chunk
  IN /\ NoDuplicates(tables[Len(tables)])
     /\ \A i \in UpvalueUses(chunk) :
          /\ Chain(tables, Len(tables), UpvalueOperand(chunk, i))
               = [hops |-> chunk.uses[i].hops, slot |-> chunk.uses[i].slot]
          /\ \A j \in UpvalueUses(chunk) :
               chunk.uses[i].name = chunk.uses[j].name
                 => UpvalueOperand(chunk, i) = UpvalueOperand(chunk, j)
     /\ \A offset \in disassemble_chunk(chunk, 0) :
          chunk.code[offset + 1] = OP_CLOSURE
            => UpvaluesThreaded(chunk.constants[chunk.code[offset + 2] + 1].f,
                                Append(tables, UpvalueTable(chunk, offset)))

\* C27 -- Upvalue table deduplication: no function's upvalue table contains
\* two entries with the same (index, is_local) pair, every reference to the
\* same captured variable inside one function emits the same upvalue operand,
\* and for a variable declared k function levels out only the function
\* immediately inside the declaring one records is_local = true while each
\* further-in function records is_local = false with the index of its
\* enclosing function's entry.  Stated for the script function that compile
\* gave and interpret put into the first frame, and every function in it.
UpvalueDeduplication ==
  Len(frames) >= 1 => UpvaluesThreaded(frames[1].closure.function, <<<<>>>>)

\* in ProgTwiceCapture the three references of b to x and the one to y gave
\* b a table of two entries, and the write through the table was read back
UpvalueDeduplicationWitness ==
  /\ src = ProgTwiceCapture
  /\ Len(frames) >= 1
  /\ output = <<"1", "2">>
  /\ UpvalueTable(frames[1].closure.function.chunk.constants[2].f.chunk, 0)
       = <<[index |-> 1, is_local |-> TRUE], [index |-> 2, is_local |-> TRUE]>>

\* C28 -- Open-upvalue map invariant: in every reachable state each entry of
\* the captures map is keyed by a stack index smaller than the stack height
\* and maps to a cell in state Stack(that index), and every cell in state
\* Stack is the map's entry for its index; CLOSE_UPVALUE and RETURN remove
\* exactly the entries of the slots they discard.
OpenUpvalueMap ==
  /\ [](\A a \in DOMAIN captures :
          a < Len(stack) /\ cells[captures[a]] = UpStack(a))
  /\ [](\A c \in 1..Len(cells) :
          cells[c].kind = "Stack"
            => /\ cells[c].location \in DOMAIN captures
               /\ captures[cells[c].location] = c)
  /\ [][(Dispatch(OP_CLOSE_UPVALUE) /\ status' = "running")
         => DOMAIN captures' = DOMAIN captures \ {Len(stack) - 1}]_vars
  /\ [][(Dispatch(OP_RETURN) /\ status' \in {"running", "ok"})
         => DOMAIN captures' = {a \in DOMAIN captures : a < Len(stack')}]_vars

\* C29 -- The scanner never reads a character at a position at or beyond the
\* end of the source: for every source text, including one ending in an
\* unterminated string literal, in a // comment without a final newline, in
\* a lone / or in digits followed by a dot, scan_token returns a token or a
\* scan error instead of faulting.
ScannerInBounds ==
  \A text \in Texts : ~(src = text /\ status = "panic")

\* what `this` denotes in a call of the function f: LoxFunction::call makes an
\* environment from f's closure, and the resolver put `this` one scope above
\* the body
ThisIn(f, envs) ==
  Environment_get(Append(envs, Environment_from(f.closure)), Len(envs) + 1,
                  "this", 1)

\* C30 -- In the tree-walking interpreter a bound method keeps its receiver:
\* once a variable holds a method obtained from an instance (var f = a.m), no
\* later statement, in particular none that obtains a method from another
\* instance of the same class (b.m), changes the value that `this` denotes
\* when the bound method is called.
BoundMethodKeepsReceiver ==
  [][outcome = "running" =>
       \A name \in DOMAIN environments[1].values :
         LET f == environments[1].values[name]
         IN f.t = "LoxFunction"
              => ThisIn(f, environments') = ThisIn(f, environments)]_vars

====
